---------------------------- MODULE Spec2Model ----------------------------
(***************************************************************************)
(* paper-poller: the state store (per-project JSON state file), the update *)
(* detector and the project poller of src/paper-poller.py.                 *)
(*                                                                         *)
(* A JSON document is a record; a key that the document does not hold is   *)
(* the marker Missing.  Python's None and the empty string are the values  *)
(* None and EmptyStr.  Version keys, build ids and channel names are       *)
(* strings, which json.dump / json.load carry unchanged (object keys and   *)
(* string values survive the round trip as they are), so a written         *)
(* document is read back as the same record.                               *)
(***************************************************************************)
EXTENDS Naturals, Sequences, FiniteSets, TLC

\* ------------------------------------------------------------- domains
Versions == {"1.21", "1.21.1"}
\* the upstream lists versions newest first (orderBy DESC)
VersionOrder == <<"1.21.1", "1.21">>
Builds == {"122", "123"}
Channels == {"BETA", "STABLE"}

\* the first entries of Config.PROJECTS, polled in this order
ProjectList == <<"paper", "folia">>
NumHooks == 2
MaxRuns == 2
\* process instances started at about the same time (cron, a user, a timer)
NumInstances == 3
MaxRetries == 3

Projects == DOMAIN ProjectList
Hooks == 1..NumHooks
Instances == 1..NumInstances

\* commit hashes: strings over two characters, of length 0..MaxHashLen
MaxHashLen == 8
\* hash[:7]
ShortLen == 7
\* commit summary lines: strings of length 0..MaxSummaryLen
MaxSummaryLen == 6
\* the commits of a build: 0..MaxCommits of them
MaxCommits == 2

Missing == "<missing>"
None == "<None>"
EmptyStr == ""
\* a file is <<>> when it does not exist, <<doc>> when it holds the text of
\* the document doc, and <<doc, how>> when it holds text that is not the text
\* of a JSON object
NoFile == <<>>
FileOf(doc) == <<doc>>
\* the text of doc cut short (json.dump not through, or an empty file):
\* json.load raises JSONDecodeError
Cut(doc) == <<doc, "truncated">>
IsDoc(f) == Len(f) = 1

\* --------------------------------------------------------- JSON values
EmptyMap == [v \in {} |-> [build |-> Missing, channel |-> Missing]]

\* dict.get(key, default) on the versions map
MapGet(m, k, default) == IF k \in DOMAIN m THEN m[k] ELSE default

\* m[k] = val on a dict
MapPut(m, k, val) == [x \in (DOMAIN m) \cup {k} |-> IF x = k THEN val ELSE m[x]]

\* dict.get(key, default) on a scalar field of a document or of an entry
FieldGet(val, default) == IF val = Missing THEN default ELSE val

\* {"versions": {}}
EmptyState ==
    [hasVersions |-> TRUE, versions |-> EmptyMap,
     version |-> Missing, build |-> Missing, channel |-> Missing]

\* {"version": v, "build": b, "channel": c}
LegacyDoc(v, b, c) ==
    [hasVersions |-> FALSE, versions |-> EmptyMap,
     version |-> v, build |-> b, channel |-> c]

\* ---------------------------------------------------------- state store
\* text that is not valid UTF-8: open / json.load raise UnicodeDecodeError,
\* which _read_state_file does not catch
NotUtf8 == <<EmptyState, "not-utf8">>

\* the text "null": json.load returns None
NotObject == <<EmptyState, "null">>

\* up_to_date, up_to_date_for_version, get_stored_data and
\* get_stored_data_for_version raise: the error of _read_state_file goes
\* through them, and on None their first test ('"version" not in data',
\* '"versions" not in data') raises TypeError
LookupRaises(f) == f = NotUtf8 \/ f = NotObject

\* _read_state_file: the document, or {"versions": {}} when there is no file
\* (FileNotFoundError) or the text does not parse (JSONDecodeError)
ReadStateFile(f) == IF IsDoc(f) THEN f[1] ELSE EmptyState

\* up_to_date comparing the build id alone
UpToDateBuildOnly(f, version, build) ==
    LET data == ReadStateFile(f)
        db == IF data.build = Missing THEN EmptyStr ELSE data.build
    IN db = build

\* up_to_date(version, build)
UpToDate(f, version, build) ==
    LET data == ReadStateFile(f)
        dv == IF data.version = Missing THEN EmptyStr ELSE data.version
        db == IF data.build = Missing THEN EmptyStr ELSE data.build
    IN dv = version /\ db = build

\* a per-version detector that reads the top-level build
UpToDateForVersionTop(f, version, build) ==
    LET data == ReadStateFile(f)
    IN FieldGet(data.build, None) = build

\* up_to_date_for_version(version, build)
UpToDateForVersion(f, version, build) ==
    LET data == ReadStateFile(f)
    IN IF ~data.hasVersions
       THEN IF data.version # Missing /\ data.build # Missing
            THEN data.version = version /\ data.build = build
            ELSE FALSE
       ELSE LET version_data ==
                    MapGet(data.versions, version,
                           [build |-> Missing, channel |-> Missing])
            IN FieldGet(version_data.build, None) = build

\* get_stored_data(): the document with "" for each missing legacy key
GetStoredData(f) ==
    LET data == ReadStateFile(f)
    IN [data EXCEPT !.version = FieldGet(data.version, EmptyStr),
                    !.build = FieldGet(data.build, EmptyStr),
                    !.channel = FieldGet(data.channel, EmptyStr)]

\* a per-version reader that serves the legacy triple for every version
GetStoredDataForVersionAnyVersion(f, version) ==
    LET data == ReadStateFile(f)
    IN IF ~data.hasVersions
       THEN IF data.version # Missing
            THEN [build |-> FieldGet(data.build, EmptyStr),
                  channel |-> FieldGet(data.channel, None)]
            ELSE [build |-> EmptyStr, channel |-> None]
       ELSE MapGet(data.versions, version, [build |-> EmptyStr, channel |-> None])

\* get_stored_data_for_version(version)
GetStoredDataForVersion(f, version) ==
    LET data == ReadStateFile(f)
    IN IF ~data.hasVersions
       THEN IF data.version # Missing /\ data.version = version
            THEN [build |-> FieldGet(data.build, EmptyStr),
                  channel |-> FieldGet(data.channel, None)]
            ELSE [build |-> EmptyStr, channel |-> None]
       ELSE MapGet(data.versions, version, [build |-> EmptyStr, channel |-> None])

\* write_to_json: the document handed to _atomic_write_json
WriteToJsonDoc(f, version, build, channel_name) ==
    LegacyDoc(version, build, channel_name)

\* write_version_to_json setting the legacy fields and no versions entry
WriteVersionToJsonDocTopOnly(f, version, build, channel_name) ==
    LET data == ReadStateFile(f)
        base == IF ~data.hasVersions THEN EmptyState ELSE data
    IN [base EXCEPT !.version = version, !.build = build,
                    !.channel = channel_name]

\* write_version_to_json starting from {"versions": {}} whatever the file holds
WriteVersionToJsonDocFresh(f, version, build, channel_name) ==
    [EmptyState EXCEPT
       !.versions = MapPut(EmptyMap, version,
                           [build |-> build, channel |-> channel_name]),
       !.version = version,
       !.build = build,
       !.channel = channel_name]

\* write_version_to_json leaving the legacy fields as they were
WriteVersionToJsonDocNoMirror(f, version, build, channel_name) ==
    LET data == ReadStateFile(f)
        base == IF ~data.hasVersions THEN EmptyState ELSE data
    IN [base EXCEPT
          !.versions = MapPut(base.versions, version,
                              [build |-> build, channel |-> channel_name])]

\* write_version_to_json: the document handed to _atomic_write_json
WriteVersionToJsonDoc(f, version, build, channel_name) ==
    LET data == ReadStateFile(f)
        base == IF ~data.hasVersions THEN EmptyState ELSE data
    IN [base EXCEPT
          !.versions = MapPut(base.versions, version,
                              [build |-> build, channel |-> channel_name]),
          !.version = version,
          !.build = build,
          !.channel = channel_name]

\* a flag raised by any stored channel, the same as the fetched one or not
ChannelChangedLegacyAnyStored(f, channel_name) ==
    LET stored_data == GetStoredData(f)
    IN FieldGet(stored_data.channel, None) # None

\* _check_version_for_update: the channel_changed flag, legacy storage
ChannelChangedLegacy(f, channel_name) ==
    LET stored_data == GetStoredData(f)
        ch == FieldGet(stored_data.channel, None)
    IN ch # None /\ FieldGet(stored_data.channel, EmptyStr) # channel_name

\* a per-version flag that compares with the top-level channel
ChannelChangedForVersionTop(f, version, channel_name) ==
    ChannelChangedLegacy(f, channel_name)

\* _check_version_for_update: the channel_changed flag, per-version storage
ChannelChangedForVersion(f, version, channel_name) ==
    LET stored_version_data == GetStoredDataForVersion(f, version)
        ch == FieldGet(stored_version_data.channel, None)
    IN ch # None /\ FieldGet(stored_version_data.channel, EmptyStr) # channel_name


\* ------------------------------------------------------ upstream answers
\* a build node of the GraphQL answer: number and channel
BuildNodes == [number : Builds, channel : Channels]

\* the build a version starts at
FirstBuild == [number |-> "122", channel |-> "STABLE"]

\* the builds edges of one version: none, or the most recent build
BuildEdges == {<<>>} \cup {<<b>> : b \in BuildNodes}

\* the version edges the API holds for a project, newest first
Responses ==
    {<<>>}
    \cup {<<[key |-> VersionOrder[1], builds |-> e]>> : e \in BuildEdges}
    \cup {<<[key |-> VersionOrder[1], builds |-> e1],
            [key |-> VersionOrder[2], builds |-> e2]>> :
            e1 \in BuildEdges, e2 \in BuildEdges}

\* latest_query: versions(first: 1)
LatestQuery(up) == IF up = <<>> THEN <<>> ELSE <<up[1]>>

\* all_versions_query: versions(first: 100)
AllVersionsQuery(up) == up

\* ------------------------------------------------------- documents on disk
\* documents left by releases that stored no channel
OldLegacyDocs == {FileOf(LegacyDoc(v, b, Missing)) : v \in Versions, b \in Builds}

\* documents write_to_json leaves
LegacyDocs ==
    {FileOf(LegacyDoc(v, b, c)) : v \in Versions, b \in Builds, c \in Channels}

\* documents one call of write_version_to_json leaves on a fresh project
MultiDocs1 ==
    {FileOf(WriteVersionToJsonDoc(NoFile, v, b, c)) :
        v \in Versions, b \in Builds, c \in Channels}

\* documents two calls of write_version_to_json leave
MultiDocs ==
    MultiDocs1 \cup
    {FileOf(WriteVersionToJsonDoc(d, v, b, c)) :
        d \in MultiDocs1, v \in Versions, b \in Builds, c \in Channels}

VARIABLES
    checkAll,   \* config.CHECK_ALL_VERSIONS
    dryRun,     \* config.DRY_RUN
    files,      \* files[p]: the content of <project>_poller.json, or NoFile
    tmps,       \* tmps[p]: the content of <project>_poller.json.tmp, or NoFile
    upstream,   \* upstream[p]: the version edges the API holds for project p
    served,     \* served[p][v]: the build ids version v of project p has had
    published,  \* the upstream published a build since the last run started
    pc,         \* where the process is
    run,        \* number of the current (or last) run
    proj,       \* main(): index of the project being polled
    resp,       \* the fetched version edges
    idx,        \* _run_multi_version_mode: index of the version edge
    cur,        \* _check_version_for_update: the update being processed
    hook,       \* _process_and_send_update: index of the webhook url
    attempt,    \* _send_webhook_with_retry: the attempt index
    outcome,    \* _send_webhook_with_retry: how the last requests.post ended
    rets,       \* _process_and_send_update: what the calls of
                \* _send_webhook_with_retry made for the update returned
    slept,      \* _send_webhook_with_retry: the seconds of the time.sleep
                \* the last attempt was followed by, 0 when by none
    drama,      \* _process_and_send_update: what get_spigot_drama returned
    raised,     \* an exception is propagating out of the project poller
    checks,     \* log: every detector decision
    writes,     \* log: every state write begun
    commits,    \* log: every state write completed (renamed into place)
    wfails,     \* log: every state write that raised
    posts,      \* log: every webhook POST attempted
    crashes,    \* log: the runs that were killed
    cleanRuns,  \* log: the runs that ended with no failure of any kind
    notified,   \* log: the (project, version, build) POSTed in earlier runs
    lost,       \* log: the updates no url could be reached for, in this run
                \* and in the one before
    ffails,     \* log: the projects whose upstream query raised in this run
    delays,     \* log: the versions _run_multi_version_mode slept
                \* VERSION_CHECK_DELAY after
    suppressed, \* log: the updates the dry-run flag kept from delivery, in
                \* this run and in the one before
    dirty,      \* a fetch, write or delivery failure happened in this run
    last,       \* the last direct call of a state-store method, and what it saw
    lock,       \* paper_poller.lock: the instance holding it, or 0
    inst,       \* inst[i]: where the process instance i is in main(), and
                \* what it has done
    call        \* the last direct call of a text function: argument and result

vars == <<checkAll, dryRun, files, tmps, upstream, served, published, pc, run, proj, resp, idx,
          cur, hook, attempt, outcome, rets, raised, checks, writes, commits, wfails, posts,
          crashes, cleanRuns, notified, lost, ffails, dirty, last,
          lock, inst, call, slept, drama, delays, suppressed>>

\* what no step of a lone poller changes
config == <<checkAll, dryRun, served, published, lock, inst, call>>
locals == <<resp, idx, cur, hook, attempt, outcome, rets, slept, drama>>
logs == <<checks, writes, commits, wfails, posts, crashes, cleanRuns>>

\* get_spigot_drama: how requests.get / raise_for_status / response.json end:
\* with the decoded answer, with a requests.RequestException (no connection,
\* timeout, HTTP error status) or with another exception (an answer that is
\* not JSON)
DramaOutcomes == {"ok", "RequestException", "Exception"}

\* "There's no drama :("
NoDramaText == "There's no drama :("

\* get_spigot_drama: the decoded answer (a dict), or the fallback string from
\* either except clause
GetSpigotDrama(o) ==
    IF o = "ok" THEN [dict |-> TRUE, text |-> "drama"]
    ELSE [dict |-> FALSE, text |-> NoDramaText]

\* get_spigot_drama not called (yet)
NoDrama == [dict |-> FALSE, text |-> ""]

NoUpdate ==
    [version |-> Missing, build |-> Missing, channel |-> Missing,
     channel_changed |-> FALSE]

NoOp ==
    [op |-> "none", legacy |-> FALSE, version |-> Missing, build |-> Missing,
     channel |-> Missing, before |-> NoFile, raises |-> FALSE,
     updated |-> FALSE, channel_changed |-> FALSE]

\* ------------------------------------------------------- text functions
\* a string is the sequence of its characters
NoCall == [fn |-> "none", arg |-> <<>>, res |-> <<>>]

\* the strings over the characters S of length 0..n
StringsUpTo(S, n) == UNION {[1..k -> S] : k \in 0..n}

\* s[:n]
SliceTo(s, n) == [i \in 1..(IF Len(s) < n THEN Len(s) ELSE n) |-> s[i]]

\* s[n:]
SliceFrom(s, n) == [i \in 1..(IF Len(s) < n THEN 0 ELSE Len(s) - n) |-> s[i + n]]

\* a shortening that pads nothing and cuts one character too many
ConvertCommitHashToShortCutsMore(hash) == SliceTo(hash, ShortLen - 1)

\* convert_commit_hash_to_short(hash)
ConvertCommitHashToShort(hash) ==
    SliceTo(hash, ShortLen)

Digits == {"1", "2"}

\* the length of the run of digits s starts with
RECURSIVE DigitRun(_)
DigitRun(s) ==
    IF s # <<>> /\ s[1] \in Digits THEN 1 + DigitRun(SliceFrom(s, 1)) ELSE 0

\* set(re.findall(r"#(\d+)", summary)): the digits of every "#" that is
\* followed by a digit, as far as the digits go
FindAllPrNumbers(summary) ==
    {SliceTo(SliceFrom(summary, i), DigitRun(SliceFrom(summary, i))) :
        i \in {j \in DOMAIN summary :
                  summary[j] = "#" /\ DigitRun(SliceFrom(summary, j)) > 0}}

\* f"[#{pr_number}](https://github.com/PaperMC/{self.project}/issues/{pr_number})";
\* "U" stands for the text from "https" to "issues/", which has no "#" and
\* no digit in it
IssueLink(pr_number) ==
    <<"[", "#">> \o pr_number \o <<"]", "(", "U">> \o pr_number \o <<")">>

\* s.replace(old, new): every occurrence of old, from the left, none
\* overlapping
RECURSIVE StrReplace(_, _, _)
StrReplace(s, old, new) ==
    IF Len(s) < Len(old) THEN s
    ELSE IF SliceTo(s, Len(old)) = old
         THEN new \o StrReplace(SliceFrom(s, Len(old)), old, new)
         ELSE <<s[1]>> \o StrReplace(SliceFrom(s, 1), old, new)

\* "for pr_number in pr_numbers: summary = summary.replace(...)", the
\* numbers taken in the given order
RECURSIVE ReplaceInOrder(_, _)
ReplaceInOrder(summary, order) ==
    IF order = <<>> THEN summary
    ELSE ReplaceInOrder(
             StrReplace(summary, <<"#">> \o order[1], IssueLink(order[1])),
             SliceFrom(order, 1))

\* the orders in which a for loop may go through a set
OrdersOf(S) ==
    {q \in [1..Cardinality(S) -> S] : \A i, j \in DOMAIN q : q[i] = q[j] => i = j}

\* str.strip(): the whitespace at both ends removed
Whitespace == {" ", "\n"}

RECURSIVE Strip(_)
Strip(s) ==
    IF s = <<>> THEN s
    ELSE IF s[1] \in Whitespace THEN Strip(SliceFrom(s, 1))
    ELSE IF s[Len(s)] \in Whitespace THEN Strip(SliceTo(s, Len(s) - 1))
    ELSE s

\* s.split("\n")[0]
RECURSIVE FirstLine(_)
FirstLine(s) ==
    IF s = <<>> \/ s[1] = "\n" THEN <<>>
    ELSE <<s[1]>> \o FirstLine(SliceFrom(s, 1))

\* get_changes_for_build: the line of one commit, "- [<short hash>](<url of
\* the full hash>) <summary>"
ChangeLine(change) ==
    LET summary == FirstLine(Strip(change.message))
        order == CHOOSE q \in OrdersOf(FindAllPrNumbers(summary)) : TRUE
    IN <<"-", " ", "[">> \o ConvertCommitHashToShort(change.sha)
           \o <<"]", "(", "U">> \o change.sha \o <<")", " ">>
           \o ReplaceInOrder(summary, order)

\* "\n".join(lines)
RECURSIVE JoinLines(_)
JoinLines(lines) ==
    IF lines = <<>> THEN <<>>
    ELSE IF Len(lines) = 1 THEN lines[1]
    ELSE lines[1] \o <<"\n">> \o JoinLines(SliceFrom(lines, 1))

\* a formatting that ends the text with the last line
GetChangesForBuildNoTrailing(data) ==
    JoinLines([i \in DOMAIN data |-> ChangeLine(data[i])])

\* get_changes_for_build(data), data the commits of the build
GetChangesForBuild(data) ==
    LET change_lines == [i \in DOMAIN data |-> ChangeLine(data[i])]
    IN IF change_lines # <<>> THEN JoinLines(change_lines) \o <<"\n">> ELSE <<>>

\* ------------------------------------------------------------ the poller
\* the key of an update in the logs
UpdateKey == [run |-> run, proj |-> proj, version |-> cur.version,
              build |-> cur.build, channel |-> cur.channel]

ResetLocals ==
    /\ resp' = <<>>
    /\ idx' = 1
    /\ cur' = NoUpdate
    /\ hook' = 1
    /\ attempt' = 0
    /\ outcome' = "none"
    /\ rets' = <<>>
    /\ slept' = 0
    /\ drama' = NoDrama

\* what the log of earlier runs keeps of a POST
NotifiedKey(p) == [proj |-> p.proj, version |-> p.version, build |-> p.build]

\* a new process starts: main() enters the project loop; the logs start
\* over for the new run, keeping of the earlier runs what was POSTed and how
\* the last one ended
StartRun ==
    /\ pc = "idle"
    /\ run < MaxRuns
    /\ run' = run + 1
    /\ proj' = 1
    /\ pc' = "fetch"
    /\ dirty' = FALSE
    /\ published' = FALSE
    /\ notified' = notified \cup {NotifiedKey(p) : p \in posts}
    /\ checks' = {}
    /\ writes' = {}
    /\ commits' = {}
    /\ wfails' = {}
    /\ posts' = {}
    /\ crashes' = crashes \cap {run}
    /\ cleanRuns' = cleanRuns \cap {run}
    /\ ffails' = {}
    /\ lost' = {l \in lost : l.run = run}
    /\ delays' = {}
    /\ suppressed' = {u \in suppressed : u.run = run}
    /\ UNCHANGED <<checkAll, dryRun, lock, inst, call, served, files, tmps, upstream, locals,
                   raised, last>>

\* the first run on the machine
StartFirstRun ==
    /\ run = 0
    /\ StartRun

\* _run_single_version_mode: get_latest_build and the validation of the answer
FetchSingle ==
    /\ pc = "fetch"
    /\ ~checkAll
    /\ LET r == LatestQuery(upstream[proj])
       IN /\ resp' = r
          /\ pc' = IF r = <<>> THEN "finally"
                   ELSE IF r[1].builds = <<>> THEN "finally"
                   ELSE "check"
    /\ UNCHANGED <<config, delays, suppressed, slept, drama, notified, lost, ffails, files, tmps, upstream, run, proj, idx, cur, hook,
                   attempt, outcome, rets, raised, logs, dirty, last>>

\* _run_multi_version_mode: get_all_versions
FetchMulti ==
    /\ pc = "fetch"
    /\ checkAll
    /\ resp' = AllVersionsQuery(upstream[proj])
    /\ idx' = 1
    /\ pc' = "loop"
    /\ UNCHANGED <<config, delays, suppressed, slept, drama, notified, lost, ffails, files, tmps, upstream, run, proj, cur, hook,
                   attempt, outcome, rets, raised, logs, dirty, last>>

\* a project poller without the finally clause: the error of client.execute
\* goes straight to main
FetchFailSkipsSleep ==
    /\ pc = "fetch"
    /\ dirty' = TRUE
    /\ ResetLocals
    /\ proj' = 1
    /\ pc' = "idle"
    /\ ffails' = ffails \cup {proj}
    /\ UNCHANGED <<config, delays, suppressed, notified, lost, files, tmps, upstream, run, raised, logs, last>>

\* client.execute raises (transport or server error): no except clause of the
\* project poller matches, the finally clause runs and the error goes on to main
FetchFail ==
    /\ pc = "fetch"
    /\ raised' = TRUE
    /\ dirty' = TRUE
    /\ ffails' = ffails \cup {proj}
    /\ pc' = "finally"
    /\ UNCHANGED <<config, delays, suppressed, notified, lost, files, tmps, upstream, run, proj, locals, logs, last>>

\* _run_multi_version_mode: the for loop is over
MultiLoopEnd ==
    /\ pc = "loop"
    /\ idx > Len(resp)
    /\ pc' = "finally"
    /\ UNCHANGED <<config, delays, suppressed, notified, lost, ffails, files, tmps, upstream, run, proj, locals, raised,
                   logs, dirty, last>>

\* a loop that stops at the first version without builds
MultiSkipNoBuildsBreaks ==
    /\ pc = "loop"
    /\ idx <= Len(resp)
    /\ resp[idx].builds = <<>>
    /\ pc' = "finally"
    /\ UNCHANGED <<config, delays, suppressed, slept, drama, notified, lost, ffails, files, tmps, upstream, idx, run, proj, resp, cur,
                   hook, attempt, outcome, rets, raised, logs, dirty, last>>

\* a loop that takes the inter-version delay after a version without builds
MultiSkipNoBuildsSleeps ==
    /\ pc = "loop"
    /\ idx <= Len(resp)
    /\ resp[idx].builds = <<>>
    /\ idx' = idx + 1
    /\ delays' = delays \cup {[proj |-> proj, version |-> resp[idx].key]}
    /\ UNCHANGED <<config, suppressed, slept, drama, notified, lost, ffails, files,
                   tmps, upstream, pc, run, proj, resp, cur, hook, attempt,
                   outcome, rets, raised, logs, dirty, last>>

\* _run_multi_version_mode: "if not builds: continue"
MultiSkipNoBuilds ==
    /\ pc = "loop"
    /\ idx <= Len(resp)
    /\ resp[idx].builds = <<>>
    /\ idx' = idx + 1
    /\ UNCHANGED <<config, delays, suppressed, slept, drama, notified, lost, ffails, files, tmps, upstream, pc, run, proj, resp, cur,
                   hook, attempt, outcome, rets, raised, logs, dirty, last>>

\* the update flow gated by a build change or a channel change
ShouldNotifyOnChannel(updated, channel_changed) == ~updated \/ channel_changed

\* the update flow going to delivery without the write
FirstUpdateStepSkipsWrite == "process"

\* the update flow entered after every check
ShouldNotifyAlways(updated, channel_changed) == TRUE

\* _check_version_for_update: "if not updated:" gates the update flow
ShouldNotify(updated, channel_changed) ==
    ~updated

\* _check_version_for_update: the write comes first, then
\* _process_and_send_update
FirstUpdateStep == "write"

CheckRecord(legacy, node, updated, channel_changed) ==
    [run |-> run, proj |-> proj, legacy |-> legacy, version |-> node.key,
     build |-> node.builds[1].number, channel |-> node.builds[1].channel,
     before |-> files[proj],
     detected |-> ShouldNotify(updated, channel_changed)]

\* _check_version_for_update(use_legacy_storage=True), up to the write
CheckLegacy ==
    /\ pc = "check"
    /\ LET version_id == resp[1].key
           build_id == resp[1].builds[1].number
           channel_name == resp[1].builds[1].channel
           updated == UpToDate(files[proj], version_id, build_id)
           channel_changed == ChannelChangedLegacy(files[proj], channel_name)
       IN /\ checks' = checks \cup
                         {CheckRecord(TRUE, resp[1], updated, channel_changed)}
          /\ IF ShouldNotify(updated, channel_changed)
             THEN /\ cur' = [version |-> version_id, build |-> build_id,
                             channel |-> channel_name,
                             channel_changed |-> channel_changed]
                  /\ pc' = FirstUpdateStep
             ELSE /\ cur' = cur
                  /\ pc' = "finally"
    /\ UNCHANGED <<config, delays, suppressed, slept, drama, notified, lost, ffails, files, tmps, upstream, run, proj, resp, idx, hook,
                   attempt, outcome, rets, raised, writes, commits, wfails, posts, crashes,
                   cleanRuns, dirty, last>>

\* _check_version_for_update(use_legacy_storage=False), up to the write
CheckPerVersion ==
    /\ pc = "loop"
    /\ idx <= Len(resp)
    /\ resp[idx].builds # <<>>
    /\ LET version_id == resp[idx].key
           build_id == resp[idx].builds[1].number
           channel_name == resp[idx].builds[1].channel
           updated == UpToDateForVersion(files[proj], version_id, build_id)
           channel_changed ==
               ChannelChangedForVersion(files[proj], version_id, channel_name)
       IN /\ checks' = checks \cup
                         {CheckRecord(FALSE, resp[idx], updated, channel_changed)}
          /\ IF ShouldNotify(updated, channel_changed)
             THEN /\ cur' = [version |-> version_id, build |-> build_id,
                             channel |-> channel_name,
                             channel_changed |-> channel_changed]
                  /\ pc' = FirstUpdateStep
                  /\ idx' = idx
             ELSE /\ cur' = cur
                  /\ pc' = "loop"
                  /\ idx' = idx + 1
    /\ UNCHANGED <<config, delays, suppressed, slept, drama, notified, lost, ffails, files, tmps, upstream, run, proj, resp, hook,
                   attempt, outcome, rets, raised, writes, commits, wfails, posts, crashes,
                   cleanRuns, dirty, last>>

\* the document write_to_json / write_version_to_json builds for the update
NewDoc ==
    IF checkAll
    THEN WriteVersionToJsonDoc(files[proj], cur.version, cur.build, cur.channel)
    ELSE WriteToJsonDoc(files[proj], cur.version, cur.build, cur.channel)

\* the state file opened for writing in place of the temporary file
OpenTarget ==
    /\ pc = "write"
    /\ files' = [files EXCEPT ![proj] = Cut(NewDoc)]
    /\ writes' = writes \cup {UpdateKey}
    /\ pc' = "dump"
    /\ UNCHANGED <<config, delays, suppressed, notified, lost, ffails, tmps, upstream, run, proj, locals, raised,
                   checks, commits, wfails, posts, crashes, cleanRuns, dirty,
                   last>>

\* _atomic_write_json: open(temp_file, "w") creates or empties the temporary
\* file; until json.dump is through it holds a prefix of the document's text
OpenTmp ==
    /\ pc = "write"
    /\ tmps' = [tmps EXCEPT ![proj] = Cut(NewDoc)]
    /\ writes' = writes \cup {UpdateKey}
    /\ pc' = "dump"
    /\ UNCHANGED <<config, delays, suppressed, notified, lost, ffails, files, upstream, run, proj, locals, raised,
                   checks, commits, wfails, posts, crashes, cleanRuns, dirty,
                   last>>

\* _atomic_write_json: json.dump completes and the temporary file is closed
WriteTmpOk ==
    /\ pc = "dump"
    /\ tmps' = [tmps EXCEPT ![proj] = FileOf(NewDoc)]
    /\ pc' = "rename"
    /\ UNCHANGED <<config, delays, suppressed, notified, lost, ffails, files, upstream, run, proj, locals, raised,
                   logs, dirty, last>>

\* the except clause of _atomic_write_json: "if temp_file.exists():
\* temp_file.unlink()", an error of the unlink being passed over
Unlinked(ok) == IF ok THEN [tmps EXCEPT ![proj] = NoFile] ELSE tmps

\* _atomic_write_json swallowing the error: the caller goes on to delivery
WriteTmpFailSwallowed ==
    /\ pc \in {"write", "dump"}
    /\ \E ok \in BOOLEAN : tmps' = Unlinked(ok)
    /\ writes' = writes \cup {UpdateKey}
    /\ wfails' = wfails \cup {UpdateKey}
    /\ dirty' = TRUE
    /\ pc' = "process"
    /\ UNCHANGED <<config, delays, suppressed, notified, lost, ffails, files, upstream, run, proj, locals, raised, checks,
                   commits, posts, crashes, cleanRuns, last>>

\* _atomic_write_json: open or json.dump raises; the temporary file is
\* unlinked and the error raised again
WriteTmpFail ==
    /\ pc \in {"write", "dump"}
    /\ \E ok \in BOOLEAN : tmps' = Unlinked(ok)
    /\ writes' = writes \cup {UpdateKey}
    /\ wfails' = wfails \cup {UpdateKey}
    /\ raised' = TRUE
    /\ dirty' = TRUE
    /\ pc' = "finally"
    /\ UNCHANGED <<config, delays, suppressed, notified, lost, ffails, files, upstream, run, proj, locals, checks, commits,
                   posts, crashes, cleanRuns, last>>

\* a poller that leaves the state file alone when config.DRY_RUN is set
RenameOkDryKeeps ==
    /\ pc = "rename"
    /\ files' = IF dryRun THEN files ELSE [files EXCEPT ![proj] = tmps[proj]]
    /\ tmps' = [tmps EXCEPT ![proj] = NoFile]
    /\ commits' = IF dryRun THEN commits ELSE commits \cup {UpdateKey}
    /\ pc' = "process"
    /\ UNCHANGED <<config, delays, suppressed, notified, lost, ffails, upstream, run, proj, locals, raised, checks, writes,
                   wfails, posts, crashes, cleanRuns, dirty, last>>

\* _atomic_write_json: temp_file.replace(filepath)
RenameOk ==
    /\ pc = "rename"
    /\ files' = [files EXCEPT ![proj] = tmps[proj]]
    /\ tmps' = [tmps EXCEPT ![proj] = NoFile]
    /\ commits' = commits \cup {UpdateKey}
    /\ pc' = "process"
    /\ UNCHANGED <<config, delays, suppressed, notified, lost, ffails, upstream, run, proj, locals, raised, checks, writes,
                   wfails, posts, crashes, cleanRuns, dirty, last>>

\* a rename that fails after it has taken the target away
RenameFailClobbers ==
    /\ pc = "rename"
    /\ files' = [files EXCEPT ![proj] = NoFile]
    /\ \E ok \in BOOLEAN : tmps' = Unlinked(ok)
    /\ wfails' = wfails \cup {UpdateKey}
    /\ raised' = TRUE
    /\ dirty' = TRUE
    /\ pc' = "finally"
    /\ UNCHANGED <<config, delays, suppressed, notified, lost, ffails, upstream, run, proj, locals, checks, writes,
                   commits, posts, crashes, cleanRuns, last>>

\* _atomic_write_json: the rename raises; the temporary file is unlinked and
\* the error raised again
RenameFail ==
    /\ pc = "rename"
    /\ \E ok \in BOOLEAN : tmps' = Unlinked(ok)
    /\ wfails' = wfails \cup {UpdateKey}
    /\ raised' = TRUE
    /\ dirty' = TRUE
    /\ pc' = "finally"
    /\ UNCHANGED <<config, delays, suppressed, notified, lost, ffails, files, upstream, run, proj, locals, checks, writes,
                   commits, posts, crashes, cleanRuns, last>>

\* a _process_and_send_update that overlooks config.DRY_RUN
ProcessDryRunSends ==
    /\ pc = "process"
    /\ dryRun
    /\ hook' = 1
    /\ attempt' = 0
    /\ outcome' = "none"
    /\ rets' = <<>>
    /\ pc' = "post"
    /\ UNCHANGED <<config, delays, suppressed, slept, drama, notified, lost, ffails, files, tmps, upstream, run, proj, resp, idx, cur,
                   raised, logs, dirty, last>>

\* _process_and_send_update: "if config.DRY_RUN: ... return"
ProcessDryRun ==
    /\ pc = "process"
    /\ dryRun
    /\ suppressed' = suppressed \cup
                       {[run |-> run, proj |-> proj, version |-> cur.version,
                         build |-> cur.build]}
    /\ pc' = "sent"
    /\ UNCHANGED <<config, delays, notified, lost, ffails, files, tmps, upstream, run, proj, locals, raised,
                   logs, dirty, last>>

\* a _process_and_send_update that an error of the drama lookup gets out of
ProcessSendDramaRaises ==
    /\ pc = "process"
    /\ ~dryRun
    /\ cur.channel # None
    /\ \E o \in DramaOutcomes :
          /\ drama' = GetSpigotDrama(o)
          /\ IF o = "ok"
             THEN pc' = "post" /\ raised' = raised /\ dirty' = dirty
             ELSE pc' = "finally" /\ raised' = TRUE /\ dirty' = TRUE
    /\ hook' = 1
    /\ attempt' = 0
    /\ outcome' = "none"
    /\ rets' = <<>>
    /\ UNCHANGED <<config, delays, suppressed, slept, notified, lost, ffails, files,
                   tmps, upstream, run, proj, resp, idx, cur, logs, last>>

\* _process_and_send_update: get_spigot_drama is called once, then the loop
\* over config.webhook_urls starts
ProcessSend ==
    /\ pc = "process"
    /\ ~dryRun
    /\ cur.channel # None
    /\ \E o \in DramaOutcomes : drama' = GetSpigotDrama(o)
    /\ hook' = 1
    /\ attempt' = 0
    /\ outcome' = "none"
    /\ rets' = <<>>
    /\ pc' = "post"
    /\ UNCHANGED <<config, delays, suppressed, slept, notified, lost, ffails, files, tmps, upstream, run, proj, resp, idx, cur,
                   raised, logs, dirty, last>>

\* _process_and_send_update: the channel of the build node is null, and
\* channel_name.capitalize() raises AttributeError before the first url is
\* tried; no except clause of the project poller matches
ProcessChannelNull ==
    /\ pc = "process"
    /\ ~dryRun
    /\ cur.channel = None
    /\ raised' = TRUE
    /\ dirty' = TRUE
    /\ pc' = "finally"
    /\ UNCHANGED <<config, delays, suppressed, notified, lost, ffails, files, tmps, upstream, run, proj, locals,
                   logs, last>>

\* _process_and_send_update: the build node has no download url, or a
\* createdAt that does not parse: the error is logged and nothing is sent
ProcessNoDownload ==
    /\ pc = "process"
    /\ ~dryRun
    /\ dirty' = TRUE
    /\ pc' = "sent"
    /\ UNCHANGED <<config, delays, suppressed, notified, lost, ffails, files, tmps, upstream, run, proj, locals,
                   raised, logs, last>>

\* get_changes_for_build: a commit of the build node lacks a key, or
\* send_v2_webhook: CHANNEL_COLORS has no colour for the channel; the
\* KeyError comes before any POST and is caught by the project poller
\* ("except KeyError: ... return"), which leaves the rest of its work undone
ProcessKeyError ==
    /\ pc = "process"
    /\ ~dryRun
    /\ dirty' = TRUE
    /\ pc' = "finally"
    /\ UNCHANGED <<config, delays, suppressed, notified, lost, ffails, files, tmps, upstream, run, proj, locals,
                   raised, logs, last>>

\* send_v2_webhook: the top-level components of the payload: the container
\* (type 17) with the title, the build line, the changes and the drama
\* footer, and the action row (type 1) with the Download button
PrimaryComponents ==
    <<[type |-> 17, content |-> "Update"], [type |-> 1, content |-> "Download"]>>

\* send_v2_webhook: the "<Project> is now <channel>!" text component (type 10)
ChangedContainer == [type |-> 10, content |-> "is now"]

\* a payload that carries the announcement whatever the flag
PayloadComponentsAlwaysAnnounce(channel_changed) ==
    Append(PrimaryComponents, ChangedContainer)

\* send_v2_webhook: payload["components"] as it is POSTed
PayloadComponents(channel_changed) ==
    IF channel_changed THEN Append(PrimaryComponents, ChangedContainer)
    ELSE PrimaryComponents

PostRecord ==
    [run |-> run, proj |-> proj, version |-> cur.version, build |-> cur.build,
     channel |-> cur.channel, hook |-> hook,
     channel_changed |-> cur.channel_changed,
     components |-> PayloadComponents(cur.channel_changed)]

\* _send_webhook_with_retry returned ret, and send_v2_webhook with it: the
\* next url, or the end of the loop
NextHook(ret) ==
    /\ rets' = Append(rets, ret)
    /\ attempt' = 0
    /\ slept' = 0
    /\ IF hook < NumHooks
       THEN hook' = hook + 1 /\ pc' = "post"
       ELSE hook' = 1 /\ pc' = "sent"

\* _send_webhook_with_retry: requests.post succeeds, return True
PostOk ==
    /\ pc = "post"
    /\ posts' = posts \cup {PostRecord}
    /\ outcome' = "ok"
    /\ NextHook(TRUE)
    /\ UNCHANGED <<config, delays, suppressed, drama, notified, lost, ffails, files, tmps, upstream, run, proj, resp, idx, cur,
                   raised, checks, writes, commits, wfails, crashes, cleanRuns,
                   dirty, last>>

\* a retry loop that waits one second whatever the attempt
BackoffFixed(i) ==
    1

\* _send_webhook_with_retry: "delay = 2 ** attempt"
Backoff(i) ==
    2 ^ i

\* a retry loop that never runs out of attempts
PostRetryUnbounded ==
    /\ pc = "post"
    /\ posts' = posts \cup {PostRecord}
    /\ attempt' = attempt + 1
    /\ slept' = Backoff(attempt)
    /\ outcome' = "RequestException"
    /\ dirty' = TRUE
    /\ UNCHANGED <<config, delays, suppressed, drama, notified, lost, ffails, files, tmps, upstream, pc, run, proj, resp, idx, cur,
                   hook, rets, raised, checks, writes, commits, wfails, crashes,
                   cleanRuns, last>>

\* _send_webhook_with_retry: RequestException with attempts left: sleep, retry
PostRetry ==
    /\ pc = "post"
    /\ attempt < MaxRetries - 1
    /\ posts' = posts \cup {PostRecord}
    /\ attempt' = attempt + 1
    /\ slept' = Backoff(attempt)
    /\ outcome' = "RequestException"
    /\ dirty' = TRUE
    /\ UNCHANGED <<config, delays, suppressed, drama, notified, lost, ffails, files, tmps, upstream, pc, run, proj, resp, idx, cur,
                   hook, rets, raised, checks, writes, commits, wfails, crashes,
                   cleanRuns, last>>

\* a delivery loop that stops at the first url that cannot be reached
PostGiveUpAborts ==
    /\ pc = "post"
    /\ ~(attempt < MaxRetries - 1)
    /\ posts' = posts \cup {PostRecord}
    /\ outcome' = "RequestException"
    /\ dirty' = TRUE
    /\ rets' = Append(rets, FALSE)
    /\ attempt' = 0
    /\ slept' = 0
    /\ hook' = 1
    /\ pc' = "sent"
    /\ UNCHANGED <<config, delays, suppressed, drama, notified, lost, ffails, files, tmps, upstream, run, proj, resp, idx, cur,
                   raised, checks, writes, commits, wfails, crashes, cleanRuns,
                   last>>

\* _send_webhook_with_retry: RequestException on the last attempt, return False
PostGiveUp ==
    /\ pc = "post"
    /\ ~(attempt < MaxRetries - 1)
    /\ posts' = posts \cup {PostRecord}
    /\ outcome' = "RequestException"
    /\ dirty' = TRUE
    /\ NextHook(FALSE)
    /\ UNCHANGED <<config, delays, suppressed, drama, notified, lost, ffails, files, tmps, upstream, run, proj, resp, idx, cur,
                   raised, checks, writes, commits, wfails, crashes, cleanRuns,
                   last>>

\* _send_webhook_with_retry: any other exception, return False
PostUnexpected ==
    /\ pc = "post"
    /\ posts' = posts \cup {PostRecord}
    /\ outcome' = "Exception"
    /\ dirty' = TRUE
    /\ NextHook(FALSE)
    /\ UNCHANGED <<config, delays, suppressed, drama, notified, lost, ffails, files, tmps, upstream, run, proj, resp, idx, cur,
                   raised, checks, writes, commits, wfails, crashes, cleanRuns,
                   last>>

\* every call of _send_webhook_with_retry for the update returned False
AllFailed ==
    /\ Len(rets) = NumHooks
    /\ \A h \in Hooks : ~rets[h]

\* the log of the updates that reached no url
Lose ==
    lost' = IF AllFailed
            THEN lost \cup {[run |-> run, proj |-> proj, version |-> cur.version,
                              build |-> cur.build]}
            ELSE lost

\* a poller that lets a delivery nobody received fail the project
SentSingleRaises ==
    /\ pc = "sent"
    /\ ~checkAll
    /\ pc' = "finally"
    /\ raised' = AllFailed
    /\ Lose
    /\ UNCHANGED <<config, delays, suppressed, notified, ffails, files, tmps, upstream, run, proj, locals,
                   logs, dirty, last>>

\* _run_single_version_mode: _check_version_for_update returned True
SentSingle ==
    /\ pc = "sent"
    /\ ~checkAll
    /\ pc' = "finally"
    /\ Lose
    /\ UNCHANGED <<config, delays, suppressed, notified, ffails, files, tmps, upstream, run, proj, locals, raised,
                   logs, dirty, last>>

\* _run_multi_version_mode: _check_version_for_update returned True:
\* updates_sent += 1, time.sleep(VERSION_CHECK_DELAY), next version
SentMulti ==
    /\ pc = "sent"
    /\ checkAll
    /\ idx' = idx + 1
    /\ cur' = NoUpdate
    /\ outcome' = "none"
    /\ rets' = <<>>
    /\ drama' = NoDrama
    /\ delays' = delays \cup {[proj |-> proj, version |-> cur.version]}
    /\ pc' = "loop"
    /\ Lose
    /\ UNCHANGED <<config, suppressed, slept, notified, ffails, files, tmps, upstream, run, proj, resp, hook,
                   attempt, raised, logs, dirty, last>>

\* the finally clause (time.sleep(RATE_LIMIT_DELAY)), then back in main():
\* the next project, or the end of the loop and of the run
FinallyReturn ==
    /\ pc = "finally"
    /\ ~raised
    /\ ResetLocals
    /\ IF proj < Len(ProjectList)
       THEN /\ proj' = proj + 1
            /\ pc' = "fetch"
            /\ cleanRuns' = cleanRuns
       ELSE /\ proj' = 1
            /\ pc' = "idle"
            /\ cleanRuns' = IF dirty THEN cleanRuns ELSE cleanRuns \cup {run}
    /\ UNCHANGED <<config, delays, suppressed, notified, lost, ffails, files, tmps, upstream, run, raised, checks, writes,
                   commits, wfails, posts, crashes, dirty, last>>

\* the finally clause, then the exception leaves the project poller and the
\* project loop: main() logs it ("except Exception") and the run is over
FinallyRaise ==
    /\ pc = "finally"
    /\ raised
    /\ ResetLocals
    /\ raised' = FALSE
    /\ proj' = 1
    /\ pc' = "idle"
    /\ UNCHANGED <<config, delays, suppressed, notified, lost, ffails, files, tmps, upstream, run, logs, dirty, last>>

\* the process is killed: whatever is on disk stays, the rest is gone
Crash ==
    /\ pc # "idle"
    /\ ResetLocals
    /\ raised' = FALSE
    /\ proj' = 1
    /\ pc' = "idle"
    /\ crashes' = crashes \cup {run}
    /\ UNCHANGED <<config, delays, suppressed, notified, lost, ffails, files, tmps, upstream, run, checks, writes, commits,
                   wfails, posts, cleanRuns, dirty, last>>

\* the build ids the answer up holds for version v
BuildsOf(up, v) ==
    {up[i].builds[1].number : i \in {j \in DOMAIN up : up[j].key = v /\ up[j].builds # <<>>}}

\* between two runs the upstream publishes, for one version of one project, a
\* build whose id that version never had
Publish ==
    /\ pc = "idle"
    /\ run >= 1
    /\ run < MaxRuns
    /\ ~published
    /\ published' = TRUE
    /\ \E p \in Projects, i \in 1..Len(VersionOrder), b \in BuildNodes :
          /\ i <= Len(upstream[p])
          /\ b.number \notin served[p][upstream[p][i].key]
          /\ upstream' = [upstream EXCEPT ![p][i].builds = <<b>>]
          /\ served' = [served EXCEPT ![p][upstream[p][i].key] = @ \cup {b.number}]
    /\ UNCHANGED <<checkAll, dryRun, lock, inst, call, delays, suppressed, notified, lost, ffails, files, tmps, pc, run, proj,
                   locals, raised, logs, dirty, last>>

\* -------------------------------------------- direct calls of the state store
\* up_to_date / get_stored_data, or their per-version forms, called as
\* _check_version_for_update calls them
StoreCheck ==
    /\ pc = "idle"
    /\ \E legacy \in BOOLEAN, v \in Versions, b \in Builds, c \in Channels :
          last' = [op |-> "check", legacy |-> legacy, version |-> v, build |-> b,
                   channel |-> c, before |-> files[proj],
                   raises |-> LookupRaises(files[proj]),
                   updated |-> IF LookupRaises(files[proj]) THEN FALSE
                               ELSE IF legacy THEN UpToDate(files[proj], v, b)
                               ELSE UpToDateForVersion(files[proj], v, b),
                   channel_changed |->
                       IF LookupRaises(files[proj]) THEN FALSE
                       ELSE IF legacy THEN ChannelChangedLegacy(files[proj], c)
                       ELSE ChannelChangedForVersion(files[proj], v, c)]
    /\ UNCHANGED <<config, delays, suppressed, notified, lost, ffails, files, tmps, upstream, pc, run, proj, locals, raised,
                   logs, dirty>>

\* write_to_json(v, b, c), the write succeeding
StoreWriteLegacy ==
    /\ pc = "idle"
    /\ \E v \in Versions, b \in Builds, c \in Channels :
          /\ files' = [files EXCEPT
                         ![proj] = FileOf(WriteToJsonDoc(files[proj], v, b, c))]
          /\ last' = [op |-> "write", legacy |-> TRUE, version |-> v,
                      build |-> b, channel |-> c, before |-> files[proj],
                      raises |-> FALSE, updated |-> UpToDate(files[proj], v, b),
                      channel_changed |-> ChannelChangedLegacy(files[proj], c)]
    /\ UNCHANGED <<config, delays, suppressed, notified, lost, ffails, tmps, upstream, pc, run, proj, locals, raised, logs,
                   dirty>>

\* write_version_to_json(v, b, c), the write succeeding
StoreWriteVersion ==
    /\ pc = "idle"
    /\ \E v \in Versions, b \in Builds, c \in Channels :
          /\ files' = [files EXCEPT
                         ![proj] = FileOf(WriteVersionToJsonDoc(files[proj], v, b, c))]
          /\ last' = [op |-> "write", legacy |-> FALSE, version |-> v,
                      build |-> b, channel |-> c, before |-> files[proj],
                      raises |-> FALSE, updated |-> UpToDateForVersion(files[proj], v, b),
                      channel_changed |->
                          ChannelChangedForVersion(files[proj], v, c)]
    /\ UNCHANGED <<config, delays, suppressed, notified, lost, ffails, tmps, upstream, pc, run, proj, locals, raised, logs,
                   dirty>>

\* --------------------------------------------------------- specifications
InitFiles == {NoFile} \cup OldLegacyDocs \cup LegacyDocs \cup MultiDocs

InitCommon ==
    /\ call = NoCall
    /\ lock = 0
    /\ inst = [i \in Instances |-> [pc |-> "start", proj |-> 1, did |-> {},
                                      timeout |-> FALSE]]
    /\ tmps = [p \in Projects |-> NoFile]
    /\ published = FALSE
    /\ pc = "idle"
    /\ run = 0
    /\ proj = 1
    /\ resp = <<>>
    /\ idx = 1
    /\ cur = NoUpdate
    /\ hook = 1
    /\ attempt = 0
    /\ outcome = "none"
    /\ rets = <<>>
    /\ raised = FALSE
    /\ checks = {}
    /\ writes = {}
    /\ commits = {}
    /\ wfails = {}
    /\ posts = {}
    /\ crashes = {}
    /\ cleanRuns = {}
    /\ notified = {}
    /\ lost = {}
    /\ ffails = {}
    /\ slept = 0
    /\ drama = NoDrama
    /\ delays = {}
    /\ suppressed = {}
    /\ dirty = FALSE
    /\ last = NoOp

\* build ids and channel names are only ever compared for equality, and the
\* state files range over all of them: the latest build of the newest
\* version, when there is one, is taken to be FirstBuild
InitResponses ==
    {r \in Responses :
        (r # <<>> /\ r[1].builds # <<>>) => r[1].builds[1] = FirstBuild}

\* every project starts from the same kind of state file and upstream answer
Init ==
    /\ checkAll \in BOOLEAN
    /\ dryRun \in BOOLEAN
    /\ \E f \in InitFiles : files = [p \in Projects |-> f]
    /\ \E r \in InitResponses :
          /\ upstream = [p \in Projects |-> r]
          /\ served = [p \in Projects |-> [v \in Versions |-> BuildsOf(r, v)]]
    /\ InitCommon

\* one run of main(), in either mode, with everything that can fail failing
Next ==
    \/ StartFirstRun
    \/ FetchSingle
    \/ FetchMulti
    \/ FetchFail
    \/ MultiLoopEnd
    \/ MultiSkipNoBuilds
    \/ CheckLegacy
    \/ CheckPerVersion
    \/ OpenTmp
    \/ WriteTmpOk
    \/ WriteTmpFail
    \/ RenameOk
    \/ RenameFail
    \/ ProcessDryRun
    \/ ProcessSend
    \/ ProcessNoDownload
    \/ ProcessKeyError
    \/ PostOk
    \/ PostRetry
    \/ PostGiveUp
    \/ PostUnexpected
    \/ SentSingle
    \/ SentMulti
    \/ FinallyReturn
    \/ FinallyRaise

Spec == Init /\ [][Next]_vars

\* run after run against the same upstream answers: nothing fails but the
\* delivery of the webhooks
NextRuns ==
    \/ StartRun
    \/ FetchSingle
    \/ FetchMulti
    \/ MultiLoopEnd
    \/ MultiSkipNoBuilds
    \/ CheckLegacy
    \/ CheckPerVersion
    \/ OpenTmp
    \/ WriteTmpOk
    \/ RenameOk
    \/ ProcessDryRun
    \/ ProcessSend
    \/ PostOk
    \/ PostRetry
    \/ PostGiveUp
    \/ PostUnexpected
    \/ SentSingle
    \/ SentMulti
    \/ FinallyReturn

SpecRuns == Init /\ [][NextRuns]_vars

\* the state store alone: its methods called directly on one project's file
InitStore ==
    /\ checkAll = FALSE
    /\ dryRun = FALSE
    /\ files \in [Projects -> InitFiles]
    /\ \A p \in Projects : p # 1 => files[p] = NoFile
    /\ upstream = [p \in Projects |-> <<>>]
    /\ served = [p \in Projects |-> [v \in Versions |-> {}]]
    /\ InitCommon

\* the readers of the state store on a file that is missing or does not
\* hold a document
UnreadableFiles ==
    {NoFile, NotUtf8, NotObject} \cup {Cut(f[1]) : f \in LegacyDocs \cup MultiDocs1}

InitRead ==
    /\ checkAll = FALSE
    /\ dryRun = FALSE
    /\ files \in [Projects -> UnreadableFiles]
    /\ \A p \in Projects : p # 1 => files[p] = NoFile
    /\ upstream = [p \in Projects |-> <<>>]
    /\ served = [p \in Projects |-> [v \in Versions |-> {}]]
    /\ InitCommon

NextRead == StoreCheck

SpecRead == InitRead /\ [][NextRead]_vars

NextStore ==
    \/ StoreCheck
    \/ StoreWriteLegacy
    \/ StoreWriteVersion

SpecStore == InitStore /\ [][NextStore]_vars

\* all-versions mode over several runs, the process killed at any step and the
\* upstream publishing new builds between runs
\* at the start every version that has builds is at the first build
CrashBuildEdges == {<<>>, <<FirstBuild>>}

CrashResponses ==
    {r \in Responses : \A i \in DOMAIN r : r[i].builds \in CrashBuildEdges}

\* no state file yet, or the state file a run left after notifying one version
CrashInitFiles ==
    {NoFile} \cup
    {FileOf(WriteVersionToJsonDoc(NoFile, v, FirstBuild.number, FirstBuild.channel)) :
        v \in Versions}

InitCrash ==
    /\ checkAll = TRUE
    /\ dryRun = FALSE
    /\ \E f \in CrashInitFiles : files = [p \in Projects |-> f]
    /\ \E r \in CrashResponses :
          /\ upstream = [p \in Projects |-> r]
          /\ served = [p \in Projects |-> [v \in Versions |-> BuildsOf(r, v)]]
    /\ InitCommon

NextCrash ==
    \/ StartRun
    \/ FetchMulti
    \/ MultiLoopEnd
    \/ MultiSkipNoBuilds
    \/ CheckPerVersion
    \/ OpenTmp
    \/ WriteTmpOk
    \/ WriteTmpFail
    \/ RenameOk
    \/ RenameFail
    \/ ProcessSend
    \/ PostOk
    \/ SentMulti
    \/ FinallyReturn
    \/ FinallyRaise
    \/ Crash
    \/ Publish

SpecCrash == InitCrash /\ [][NextCrash]_vars

\* answers of the upstream with a null where a build number or a channel
\* name belongs
MalformedNodes ==
    {[number |-> None, channel |-> FirstBuild.channel],
     [number |-> FirstBuild.number, channel |-> None]}

MalformedEdges == CrashBuildEdges \cup {<<n>> : n \in MalformedNodes}

MalformedResponses ==
    LET all == {<<[key |-> VersionOrder[1], builds |-> e]>> : e \in MalformedEdges}
               \cup {<<[key |-> VersionOrder[1], builds |-> e1],
                       [key |-> VersionOrder[2], builds |-> e2]>> :
                       e1 \in MalformedEdges, e2 \in MalformedEdges}
    IN {r \in all : \E i \in DOMAIN r :
           r[i].builds # <<>> /\ r[i].builds[1] \in MalformedNodes}

\* no state file, or the state file a run of either mode left
MalformedInitFiles ==
    {NoFile}
    \cup {FileOf(WriteToJsonDoc(NoFile, v, b, FirstBuild.channel)) :
            v \in Versions, b \in Builds}
    \cup {FileOf(WriteVersionToJsonDoc(NoFile, v, b, FirstBuild.channel)) :
            v \in Versions, b \in Builds}

InitMalformed ==
    /\ checkAll \in BOOLEAN
    /\ dryRun \in BOOLEAN
    /\ \E f \in MalformedInitFiles : files = [p \in Projects |-> f]
    /\ \E r \in MalformedResponses :
          /\ upstream = [p \in Projects |-> r]
          /\ served = [p \in Projects |-> [v \in Versions |-> BuildsOf(r, v)]]
    /\ InitCommon

\* both modes with nothing failing but the answer
NextMalformed ==
    \/ StartRun
    \/ FetchSingle
    \/ FetchMulti
    \/ MultiLoopEnd
    \/ MultiSkipNoBuilds
    \/ CheckLegacy
    \/ CheckPerVersion
    \/ OpenTmp
    \/ WriteTmpOk
    \/ RenameOk
    \/ ProcessDryRun
    \/ ProcessSend
    \/ ProcessChannelNull
    \/ PostOk
    \/ SentSingle
    \/ SentMulti
    \/ FinallyReturn
    \/ FinallyRaise

SpecMalformed == InitMalformed /\ [][NextMalformed]_vars

\* ------------------------------------------------ calls of text functions
HashInputs == StringsUpTo({"a", "b"}, MaxHashLen)

SummaryInputs == StringsUpTo(Digits \cup {"#", "x"}, MaxSummaryLen)

\* commits: a hash of eight characters or of one, and a message of one line,
\* of several, or with a blank in front
CommitInputs ==
    [sha : {<<"a", "b", "c", "d", "e", "f", "0", "1">>, <<"b">>},
     message : {<<"m">>, <<"m", "\n", "\n", "n">>, <<" ", "m", "\n">>}]

\* everything but the call
nocall ==
    <<checkAll, dryRun, files, tmps, upstream, served, published, pc, run, proj,
      locals, raised, logs, notified, lost, ffails, delays, suppressed, dirty,
      last, lock, inst>>

\* convert_commit_hash_to_short called on some hash; a behaviour follows one
\* call
CallShortHash ==
    /\ call = NoCall
    /\ \E h \in HashInputs :
          call' = [fn |-> "convert_commit_hash_to_short", arg |-> h,
                   res |-> ConvertCommitHashToShort(h)]
    /\ UNCHANGED nocall

\* get_changes_for_build: the issue links of one summary line; a set of
\* strings is gone through in an order that changes from process to process
CallLinkIssues ==
    /\ call = NoCall
    /\ \E summary \in SummaryInputs :
          \E order \in OrdersOf(FindAllPrNumbers(summary)) :
              call' = [fn |-> "get_changes_for_build", arg |-> summary,
                       res |-> ReplaceInOrder(summary, order)]
    /\ UNCHANGED nocall

\* get_changes_for_build called on the commits of some build
CallGetChanges ==
    /\ call = NoCall
    /\ \E data \in StringsUpTo(CommitInputs, MaxCommits) :
          call' = [fn |-> "get_changes_for_build(data)", arg |-> data,
                   res |-> GetChangesForBuild(data)]
    /\ UNCHANGED nocall

InitText ==
    /\ checkAll = FALSE
    /\ dryRun = FALSE
    /\ files = [p \in Projects |-> NoFile]
    /\ upstream = [p \in Projects |-> <<>>]
    /\ served = [p \in Projects |-> [v \in Versions |-> {}]]
    /\ InitCommon

NextText ==
    \/ CallShortHash
    \/ CallLinkIssues
    \/ CallGetChanges

SpecText == InitText /\ [][NextText]_vars

\* --------------------------------------------- several instances of main()
\* the state of the one poller the other specifications follow
poller ==
    <<checkAll, dryRun, files, tmps, upstream, served, published, pc, run, proj,
      locals, raised, logs, notified, lost, ffails, delays, suppressed, dirty,
      last, call>>

\* the instance i goes to pc, having done what
Goes(i, to, what) ==
    inst' = [inst EXCEPT ![i].pc = to, ![i].did = inst[i].did \cup what]

\* an instance that takes the lock without looking at it
LockAcquireBlind(i) ==
    /\ inst[i].pc \in {"start", "waiting"}
    /\ lock' = i
    /\ Goes(i, "fetch", {})
    /\ UNCHANGED poller

\* "with lock:": FileLock.acquire finds the lock free and takes it
LockAcquire(i) ==
    /\ inst[i].pc \in {"start", "waiting"}
    /\ lock = 0
    /\ lock' = i
    /\ Goes(i, "fetch", {})
    /\ UNCHANGED poller

\* FileLock.acquire finds the lock held and polls
LockWait(i) ==
    /\ inst[i].pc = "start"
    /\ lock # 0
    /\ Goes(i, "waiting", {})
    /\ UNCHANGED <<poller, lock>>

\* the lock is still held after Config.LOCK_TIMEOUT seconds: FileLock raises
\* Timeout, "except Timeout: logger.warning(...)" and main() returns
LockTimeout(i) ==
    /\ inst[i].pc = "waiting"
    /\ lock # 0
    /\ inst' = [inst EXCEPT ![i].pc = "exited", ![i].timeout = TRUE]
    /\ UNCHANGED <<poller, lock>>

\* api.run() of the instance i: the upstream query, which finds an update or
\* none, or raises
InstFetch(i) ==
    /\ inst[i].pc = "fetch"
    /\ \E to \in {"write", "next", "release"} : Goes(i, to, {"fetch"})
    /\ UNCHANGED <<poller, lock>>

\* api.run() of the instance i: the state write, which may raise
InstWrite(i) ==
    /\ inst[i].pc = "write"
    /\ \E to \in {"post", "release"} : Goes(i, to, {"write"})
    /\ UNCHANGED <<poller, lock>>

\* api.run() of the instance i: the webhook POSTs
InstPost(i) ==
    /\ inst[i].pc = "post"
    /\ Goes(i, "next", {"post"})
    /\ UNCHANGED <<poller, lock>>

\* "for project_name in config.PROJECTS": the next project, or the end
InstNext(i) ==
    /\ inst[i].pc = "next"
    /\ inst' = [inst EXCEPT
                  ![i].pc = IF inst[i].proj < Len(ProjectList) THEN "fetch"
                            ELSE "release",
                  ![i].proj = IF inst[i].proj < Len(ProjectList)
                              THEN inst[i].proj + 1 ELSE 1]
    /\ UNCHANGED <<poller, lock>>

\* the with block is left, by the end of the loop or by an exception: the
\* lock is released and main() returns
LockRelease(i) ==
    /\ inst[i].pc = "release"
    /\ lock' = 0
    /\ Goes(i, "exited", {})
    /\ UNCHANGED poller

InitLock ==
    /\ checkAll = FALSE
    /\ dryRun = FALSE
    /\ files = [p \in Projects |-> NoFile]
    /\ upstream = [p \in Projects |-> <<>>]
    /\ served = [p \in Projects |-> [v \in Versions |-> {}]]
    /\ InitCommon

NextLock ==
    \E i \in Instances :
        \/ LockAcquire(i)
        \/ LockWait(i)
        \/ LockTimeout(i)
        \/ InstFetch(i)
        \/ InstWrite(i)
        \/ InstPost(i)
        \/ InstNext(i)
        \/ LockRelease(i)

SpecLock == InitLock /\ [][NextLock]_vars

\* ----------------------------------- runs with and without the dry-run flag
\* between two runs PAPER_POLLER_DRY_RUN is taken away: the next process
\* reads config.DRY_RUN as False
ClearDryRun ==
    /\ pc = "idle"
    /\ run >= 1
    /\ dryRun
    /\ dryRun' = FALSE
    /\ UNCHANGED <<checkAll, files, tmps, upstream, served, published, pc, run,
                   proj, locals, raised, logs, notified, lost, ffails, delays,
                   suppressed, dirty, last, lock, inst, call>>

\* run after run against the same upstream answers, the flag set or not in
\* the first and taken away before some later one
NextDry ==
    \/ NextRuns
    \/ ClearDryRun

SpecDry == Init /\ [][NextDry]_vars

\* ------------------------------------------- one run of main(), to its end
\* main(): "with lock:", the lock is free and the process takes it
MainLock ==
    /\ LockAcquire(1)

\* main(): "for project_name in config.PROJECTS", inside the with block
MainLoop ==
    /\ lock = 1
    /\ inst[1].pc = "fetch"
    /\ StartFirstRun

\* a with block that gives the lock back only when the loop ran to its end
\* with no failure
MainUnlockCleanOnly ==
    /\ pc = "idle"
    /\ run = 1
    /\ inst[1].pc = "fetch"
    /\ lock' = IF dirty THEN lock ELSE 0
    /\ Goes(1, "exited", {"fetch"})
    /\ UNCHANGED poller

\* main(): the with block is left, at the end of the project loop or by the
\* exception that aborted it (caught by "except Exception" outside the with
\* block): FileLock.__exit__ releases the lock and main() returns
MainUnlock ==
    /\ pc = "idle"
    /\ run = 1
    /\ inst[1].pc = "fetch"
    /\ lock' = 0
    /\ Goes(1, "exited", {"fetch"})
    /\ UNCHANGED poller

\* the run starts from no state file or from what one earlier write of this
\* release left, in either format, against any upstream answer
InitMain ==
    /\ checkAll \in BOOLEAN
    /\ dryRun \in BOOLEAN
    /\ \E f \in {NoFile} \cup LegacyDocs \cup MultiDocs1 :
          files = [p \in Projects |-> f]
    /\ \E r \in InitResponses :
          /\ upstream = [p \in Projects |-> r]
          /\ served = [p \in Projects |-> [v \in Versions |-> BuildsOf(r, v)]]
    /\ InitCommon

\* one process from the start of main() to its return, with everything that
\* can fail failing
NextMain ==
    \/ MainLock
    \/ MainLoop
    \/ FetchSingle
    \/ FetchMulti
    \/ FetchFail
    \/ MultiLoopEnd
    \/ MultiSkipNoBuilds
    \/ CheckLegacy
    \/ CheckPerVersion
    \/ OpenTmp
    \/ WriteTmpOk
    \/ WriteTmpFail
    \/ RenameOk
    \/ RenameFail
    \/ ProcessDryRun
    \/ ProcessSend
    \/ ProcessNoDownload
    \/ ProcessKeyError
    \/ PostOk
    \/ PostRetry
    \/ PostGiveUp
    \/ PostUnexpected
    \/ SentSingle
    \/ SentMulti
    \/ FinallyReturn
    \/ FinallyRaise
    \/ MainUnlock

\* the process is scheduled until it returns: every call main() makes comes
\* back (the requests carry timeouts, the sleeps are finite), so a step that
\* can be taken is taken
SpecMain == InitMain /\ [][NextMain]_vars /\ WF_vars(NextMain)

\* ------------------------------------------------------------ properties
\* what a document stores, read off the document itself
TopVersion(f) == IF f = NoFile THEN Missing ELSE f[1].version
TopBuild(f) == IF f = NoFile THEN Missing ELSE f[1].build
TopChannel(f) == IF f = NoFile THEN Missing ELSE f[1].channel

NoEntry == [build |-> Missing, channel |-> Missing]

\* the entry of version v: versions[v], or for a document without a versions
\* map the legacy triple when it is about v
StoredEntry(f, v) ==
    IF f = NoFile THEN NoEntry
    ELSE IF f[1].hasVersions
         THEN IF v \in DOMAIN f[1].versions THEN f[1].versions[v] ELSE NoEntry
         ELSE IF f[1].version = v
              THEN [build |-> f[1].build, channel |-> f[1].channel]
              ELSE NoEntry

\* the build id and the channel stored for the relevant key of a mode
StoredBuild(f, legacy, v) == IF legacy THEN TopBuild(f) ELSE StoredEntry(f, v).build
StoredChannel(f, legacy, v) ==
    IF legacy THEN TopChannel(f) ELSE StoredEntry(f, v).channel

\* the update (run, project, version, build, channel) a log record is about
KeyOf(r) == [run |-> r.run, proj |-> r.proj, version |-> r.version,
             build |-> r.build, channel |-> r.channel]

\* the document holds (v, b, c) under the key the mode uses
OnDisk(f, legacy, v, b, c) ==
    /\ f # NoFile
    /\ IF legacy
       THEN f[1].version = v /\ f[1].build = b /\ f[1].channel = c
       ELSE /\ f[1].hasVersions
            /\ v \in DOMAIN f[1].versions
            /\ f[1].versions[v] = [build |-> b, channel |-> c]

\* C1: in both modes every webhook POST of an update comes after the state
\* write of that update has completed (the document on disk holds the update
\* while the POSTs go out), and an update whose write raised is never POSTed.
C1_WriteBeforePost ==
    /\ \A p \in posts : KeyOf(p) \in commits /\ KeyOf(p) \notin wfails
    /\ pc = "post" =>
          OnDisk(files[proj], ~checkAll, cur.version, cur.build, cur.channel)

C1_Witness ==
    /\ posts # {}
    /\ \E k \in wfails : \A p \in posts : KeyOf(p) # k

\* C2: after a run that ended with no fetch, write or delivery failure, the
\* next run (same mode, same upstream answers) attempts no POST and begins no
\* state write.
C2_RunIdempotent ==
    \A r \in cleanRuns :
        /\ \A p \in posts : p.run # r + 1
        /\ \A w \in writes : w.run # r + 1

\* C3: after an update for (version, build) was detected and written, the
\* same detector called again for (version, build) reports up to date, in
\* legacy and in per-version mode.
C3_RecheckUpToDate ==
    (last.op = "write" /\ ~last.updated) =>
        IF last.legacy
        THEN UpToDate(files[proj], last.version, last.build)
        ELSE UpToDateForVersion(files[proj], last.version, last.build)

C3_Witness ==
    /\ last.op = "write"
    /\ ~last.updated
    /\ ~last.legacy
    /\ last.before # NoFile

\* C4: all-versions mode, state file absent or multi-version, new builds
\* only ever fresh, the process killed at any step: no (project, version,
\* build) POSTed in an earlier run is POSTed again in the current run.
C4_NoDoublePost ==
    \A p \in posts : NotifiedKey(p) \notin notified

C4_Witness ==
    /\ run - 1 \in crashes
    /\ posts # {}
    /\ \E n \in notified : \E c \in checks :
          /\ c.proj = n.proj
          /\ c.version = n.version
          /\ c.build = n.build
          /\ ~c.detected

\* C5 as stated: an update is detected iff the build id stored for the
\* relevant key (top-level build in legacy mode) differs from the fetched one.
C5_BuildAlone ==
    \A c \in checks :
        c.detected <=> (StoredBuild(c.before, c.legacy, c.version) # c.build)

\* what the detector compares: in legacy mode the stored (version, build)
\* pair, in per-version mode the build stored for the version
Differs(c) ==
    IF c.legacy
    THEN TopVersion(c.before) # c.version \/ TopBuild(c.before) # c.build
    ELSE StoredEntry(c.before, c.version).build # c.build

\* the update flow was entered for the check c
FlowEntered(c) ==
    \/ KeyOf(c) \in writes
    \/ pc \in {"write", "rename"} /\ KeyOf(c) = UpdateKey

\* C5: an update is detected, and the update flow entered, iff in legacy mode
\* the stored top-level (version, build) pair differs from the fetched pair,
\* and in per-version mode the build stored for the version differs from the
\* fetched build; a missing stored value counts as different.
C5_Detection ==
    \A c \in checks :
        /\ c.detected <=> Differs(c)
        /\ FlowEntered(c) <=> Differs(c)

C5_Witness ==
    \E c \in checks :
        /\ c.legacy
        /\ c.detected
        /\ TopBuild(c.before) = c.build
        /\ KeyOf(c) \in commits

\* C6: when no channel is stored for the relevant key (no state file, or a
\* record without channel), a detected update is delivered with
\* channel_changed = false, in both modes.
C6_FirstSeenNoTransition ==
    \A c \in checks : \A p \in posts :
        (KeyOf(p) = KeyOf(c)
           /\ StoredChannel(c.before, c.legacy, c.version) = Missing)
            => ~p.channel_changed

\* the stored build equals the fetched one and a stored channel differs
ChannelOnly(c) ==
    /\ StoredBuild(c.before, c.legacy, c.version) = c.build
    /\ StoredChannel(c.before, c.legacy, c.version) # Missing
    /\ StoredChannel(c.before, c.legacy, c.version) # c.channel

\* nothing was done for the check c: no write begun, no POST attempted
Quiet(c) ==
    /\ ~c.detected
    /\ KeyOf(c) \notin writes
    /\ \A p \in posts : KeyOf(p) # KeyOf(c)

Now == files[proj][1]

BeforeHasVersions == last.before # NoFile /\ last.before[1].hasVersions

\* C8: write_version_to_json(v, b, c) on a document with a versions map
\* leaves versions[w] as it was for every w other than v.
C8_SiblingsUntouched ==
    (last.op = "write" /\ ~last.legacy /\ BeforeHasVersions) =>
        \A w \in Versions \ {last.version} :
            /\ (w \in DOMAIN Now.versions) <=> (w \in DOMAIN last.before[1].versions)
            /\ w \in DOMAIN Now.versions =>
                  Now.versions[w] = last.before[1].versions[w]

C8_Witness ==
    /\ last.op = "write"
    /\ ~last.legacy
    /\ BeforeHasVersions
    /\ \E w \in Versions \ {last.version} : w \in DOMAIN last.before[1].versions
    /\ last.version \in DOMAIN last.before[1].versions

TopIsWritten ==
    /\ Now.version = last.version
    /\ Now.build = last.build
    /\ Now.channel = last.channel

EntryIsWritten ==
    /\ Now.hasVersions
    /\ last.version \in DOMAIN Now.versions
    /\ Now.versions[last.version].build = last.build

C10_MigrationKeepsLegacy ==
    (/\ last.op = "write"
     /\ ~last.legacy
     /\ last.before # NoFile
     /\ ~last.before[1].hasVersions
     /\ last.before[1].version # last.version) =>
        /\ UpToDateForVersion(files[proj], last.before[1].version,
                              last.before[1].build)
        /\ GetStoredDataForVersion(files[proj], last.before[1].version).channel
              = FieldGet(last.before[1].channel, None)

\* the state file of project p is replaced by the document being written
Replaced(p) ==
    /\ p = proj
    /\ pc = "rename"
    /\ IsDoc(tmps[p])
    /\ tmps[p] = FileOf(NewDoc)
    /\ files'[p] = tmps[p]

\* C11: the state file never holds a partially written document; a step
\* either leaves it as it was or replaces it by the complete new document,
\* so a process killed between the temporary write and the rename leaves the
\* previous document for the next read.
C11_AtomicReplace ==
    /\ [](\A p \in Projects : files[p] = NoFile \/ IsDoc(files[p]))
    /\ [][\A p \in Projects : files'[p] = files[p] \/ Replaced(p)]_vars

\* the previous run was killed with the temporary file complete and not yet
\* renamed; this run has read the previous document
C11_Witness ==
    /\ run - 1 \in crashes
    /\ pc = "write"
    /\ IsDoc(tmps[proj])
    /\ tmps[proj] # files[proj]
    /\ \E c \in checks : KeyOf(c) = UpdateKey /\ c.before = files[proj]
    /\ tmps[proj] = FileOf(NewDoc)

\* a step in which _atomic_write_json fails
WriteFails == wfails' \ wfails # {}

\* C12 as stated: when _atomic_write_json fails the temporary file is gone
\* afterwards, the state file is as before and the error is raised.
C12_TmpRemoved ==
    [][WriteFails =>
         /\ tmps'[proj] = NoFile
         /\ files' = files
         /\ raised']_vars

\* C12: when _atomic_write_json fails at any step the temporary file is
\* removed, or left as it was when removing it fails too (that error is passed
\* over); the state file keeps its content and the error is raised.
C12_FailureLeavesTarget ==
    [][WriteFails =>
         /\ tmps'[proj] = NoFile \/ tmps' = tmps
         /\ files' = files
         /\ raised'
         /\ pc' = "finally"]_vars

\* the write of an update raised: no temporary file is left, the state file
\* is the one the detector read
C12_Witness ==
    /\ pc = "finally"
    /\ raised
    /\ UpdateKey \in wfails
    /\ tmps[proj] = NoFile
    /\ files[proj] # NoFile
    /\ \E c \in checks : KeyOf(c) = UpdateKey /\ c.before = files[proj]

\* C13: on a state file that is missing or does not hold a document no
\* lookup raises, and every lookup answers as on the empty state: the build
\* is not up to date.
C13_ReadNeverRaises ==
    (last.op = "check" /\ ~IsDoc(last.before)) =>
        /\ ~last.raises
        /\ ~last.updated

\* C14: with the dry-run flag set no webhook POST is attempted: no run, in
\* either mode, logs a POST or stands at a POST, whatever the upstream answers
\* and whatever the state files held
C14_DryRunNoPost ==
    dryRun => /\ posts = {}
              /\ notified = {}
              /\ pc # "post"

\* a dry run found an update and committed it; the run is over
C14_Witness ==
    /\ dryRun
    /\ pc = "idle"
    /\ commits # {}
    /\ \E c \in checks : c.detected /\ KeyOf(c) \in commits

\* the update being processed was POSTed to the h-th url
PostedTo(h) == \E p \in posts : KeyOf(p) = UpdateKey /\ p.hook = h

\* C15: endpoint independence: once the delivery of an update has begun,
\* every configured url gets at least one POST attempt, whatever the calls for
\* the urls before it returned: while the loop stands at a url every url
\* before it has been attempted, and the loop ends with one return value and
\* one attempt per url
C15_EndpointIndependence ==
    /\ pc = "post" => /\ Len(rets) = hook - 1
                      /\ \A h \in 1..(hook - 1) : PostedTo(h)
    /\ (pc = "sent" /\ rets # <<>>) => /\ Len(rets) = NumHooks
                                       /\ \A h \in Hooks : PostedTo(h)

\* the delivery to the first url failed and every url was attempted
C15_Witness ==
    /\ pc = "sent"
    /\ Len(rets) = NumHooks
    /\ ~rets[1]
    /\ \A h \in Hooks : PostedTo(h)

\* this step is a requests.post of _send_webhook_with_retry
Attempted ==
    /\ pc = "post"
    /\ outcome' # "none"
    /\ attempt' # attempt \/ rets' # rets

\* this step ends a call of _send_webhook_with_retry
Returned == Len(rets') = Len(rets) + 1

\* C16: bounded retry: a call of _send_webhook_with_retry makes at most
\* MaxRetries POST attempts whatever the failures are, returns at once when an
\* attempt succeeds, and returns True iff its last attempt, the only one
\* that can have succeeded, did
C16_BoundedRetry ==
    [][Attempted =>
        /\ attempt < MaxRetries
        /\ outcome' = "ok" => Returned
        /\ Returned => (rets'[Len(rets')] <=> outcome' = "ok")
        /\ ~Returned => attempt' = attempt + 1]_vars

\* the call for the first url succeeded, the call for the last one used up
\* its attempts and returned False
C16_Witness ==
    /\ pc = "sent"
    /\ Len(rets) = NumHooks
    /\ rets[1]
    /\ ~rets[NumHooks]
    /\ outcome = "RequestException"

\* the POST p and the log entry l are about the same (project, version, build)
SameUpdate(p, l) ==
    /\ p.proj = l.proj
    /\ p.version = l.version
    /\ p.build = l.build

\* C17: fire and log: when the call for every url has returned False, the
\* processing of the update returns normally (no exception, the poller goes
\* on as after a delivered update), the state written for the update is on
\* disk and stays there, and no later run POSTs the update again
C17_FireAndLog ==
    /\ []((pc = "sent" /\ AllFailed) =>
            /\ ~raised
            /\ UpdateKey \in commits
            /\ OnDisk(files[proj], ~checkAll, cur.version, cur.build, cur.channel))
    /\ [][(pc = "sent" /\ AllFailed) =>
            /\ pc' \in {"finally", "loop"}
            /\ ~raised'
            /\ files' = files]_vars
    /\ [](\A l \in lost :
            /\ StoredBuild(files[l.proj], ~checkAll, l.version) = l.build
            /\ \A p \in posts : SameUpdate(p, l) => p.run = l.run)

\* an update reached no url in the run before; this run has checked the same
\* build again, found it up to date and POSTed nothing
C17_Witness ==
    /\ pc = "idle"
    /\ \E l \in lost :
          /\ l.run = run - 1
          /\ \E c \in checks :
                /\ c.proj = l.proj
                /\ c.version = l.version
                /\ c.build = l.build
                /\ ~c.detected
          /\ \A p \in posts : ~SameUpdate(p, l)

\* this step gives control back to main(): the next project, or the end of
\* the run
BackInMain ==
    /\ pc # "idle"
    /\ proj' # proj \/ pc' = "idle" \/ (pc # "fetch" /\ pc' = "fetch")

\* C18: every invocation of the project poller, in either mode, ends with the
\* rate-limit sleep of its finally clause: control goes back to main() from
\* the finally clause and from nowhere else, whether the poller sent an
\* update, found the state up to date, gave up on the answer, or is left by
\* an exception
C18_SleepLast == [][BackInMain => pc = "finally"]_vars

\* the upstream query of the second project raised and the poller stands at
\* its sleep, the exception still on its way to main()
C18_Witness ==
    /\ pc = "finally"
    /\ raised
    /\ cur = NoUpdate
    /\ proj > 1

\* the upstream query of the project being polled raises in this step
FetchFails == proj \in ffails' \ ffails

\* C19 as stated: a failure of the upstream query is caught inside the project
\* poller: no exception leaves the poller, the state file of the project is
\* not modified, nothing is POSTed for it, and from the finally clause of a
\* project whose query failed main() goes on to the next configured project
C19_FetchFailureCaught ==
    /\ [][FetchFails => /\ ~raised'
                        /\ files' = files
                        /\ posts' = posts]_vars
    /\ [][(pc = "finally" /\ proj \in ffails /\ proj < Len(ProjectList))
            => (proj' = proj + 1 /\ pc' = "fetch")]_vars
    /\ [](\A p \in posts : p.proj \notin ffails)

\* the build node the check c was made for has a null number or channel
Malformed(c) == c.build = None \/ c.channel = None

\* C20 as stated: when the upstream answers with a null on the access path,
\* here the number or the channel of a build node, the project poller returns
\* without raising, POSTs nothing for the entry and begins no write of the
\* state file for it
C20_MalformedAborts ==
    /\ ~raised
    /\ \A c \in checks :
          Malformed(c) => /\ KeyOf(c) \notin writes
                          /\ \A p \in posts : KeyOf(p) # KeyOf(c)

\* the instances inside the project loop
InLoop == {i \in Instances : inst[i].pc \in {"fetch", "write", "post", "next", "release"}}

\* C21: run-level mutual exclusion: of the instances started together at most
\* one at a time is inside the project loop, and it is the holder of the
\* lock; an instance whose wait for the lock timed out has fetched nothing,
\* written nothing, POSTed nothing, and has left main()
C21_MutualExclusion ==
    /\ Cardinality(InLoop) <= 1
    /\ \A i \in InLoop : lock = i
    /\ \A i \in Instances :
          inst[i].timeout => /\ inst[i].did = {}
                             /\ inst[i].pc = "exited"

\* one instance is writing state, another one gave up waiting and a third
\* one has been through the loop before
C21_Witness ==
    \E i, j, k \in Instances :
        /\ inst[i].pc = "write"
        /\ inst[j].timeout
        /\ inst[k].pc = "exited"
        /\ "post" \in inst[k].did

\* the loop of the all-versions mode stands at a version without builds
AtEmptyVersion ==
    /\ pc = "loop"
    /\ idx <= Len(resp)
    /\ resp[idx].builds = <<>>

\* the version edge j of the answer has been through the detector in this run
Checked(j) ==
    \E c \in checks : c.run = run /\ c.proj = proj /\ c.version = resp[j].key

\* C22: in all-versions mode a version entry without builds is skipped: the
\* step over it writes nothing, POSTs nothing, raises nothing and goes on to
\* the next entry; nothing is ever logged for such a version, and every entry
\* with builds the loop has passed, before or after an empty one, was checked
C22_EmptyBuildsSkipped ==
    /\ [][AtEmptyVersion => /\ pc' = "loop"
                            /\ idx' = idx + 1
                            /\ files' = files
                            /\ tmps' = tmps
                            /\ posts' = posts
                            /\ checks' = checks
                            /\ ~raised']_vars
    /\ []((checkAll /\ pc \in {"loop", "finally"}) =>
            \A j \in DOMAIN resp :
                IF resp[j].builds = <<>>
                THEN /\ ~Checked(j)
                     /\ \A w \in writes \cup posts :
                           (w.proj = proj) => w.version # resp[j].key
                ELSE (j < idx) => Checked(j))

\* the newest version has no builds; the loop went on to the older one,
\* found an update for it and committed it
C22_Witness ==
    /\ checkAll
    /\ pc = "finally"
    /\ ~raised
    /\ Len(resp) = 2
    /\ resp[1].builds = <<>>
    /\ \E c \in checks :
          /\ c.version = resp[2].key
          /\ c.proj = proj
          /\ c.detected
          /\ KeyOf(c) \in commits

\* the check c was made on a multi-version document
OnMultiDoc(c) == IsDoc(c.before) /\ c.before[1].hasVersions

\* every url got a POST for the update of the check c
PostedEverywhere(c) ==
    \A h \in Hooks : \E p \in posts : KeyOf(p) = KeyOf(c) /\ p.hook = h

\* C23: all-versions mode, a multi-version state document, delivery on and
\* nothing failing: when the run is over every version of the answer that
\* has a build was checked and has that build under versions[version]; each
\* version whose stored build differed was POSTed to every url, each url being
\* tried once, and nothing was POSTed for a version whose stored build matched
C23_MultiVersionRun ==
    /\ []((pc = "idle" /\ checkAll /\ ~dryRun /\ run \in cleanRuns) =>
            /\ \A p \in Projects : \A j \in DOMAIN upstream[p] :
                  (upstream[p][j].builds # <<>>) =>
                      \E c \in checks :
                          /\ c.proj = p
                          /\ c.version = upstream[p][j].key
                          /\ c.build = upstream[p][j].builds[1].number
            /\ \A c \in checks :
                  OnMultiDoc(c) =>
                      /\ StoredEntry(files[c.proj], c.version).build = c.build
                      /\ IF StoredEntry(c.before, c.version).build # c.build
                         THEN PostedEverywhere(c)
                         ELSE \A p \in posts :
                                 ~(p.proj = c.proj /\ p.version = c.version))
    /\ [][(Attempted /\ attempt = 0) => PostRecord \notin posts]_vars

\* a run over two versions ended clean: one was behind and was POSTed to every
\* url, the other one was up to date
C23_Witness ==
    /\ pc = "idle"
    /\ checkAll
    /\ ~dryRun
    /\ run \in cleanRuns
    /\ \E c, d \in checks :
          /\ c.proj = d.proj
          /\ c.version # d.version
          /\ OnMultiDoc(c)
          /\ OnMultiDoc(d)
          /\ StoredEntry(c.before, c.version).build # c.build
          /\ PostedEverywhere(c)
          /\ StoredEntry(d.before, d.version).build = d.build

\* p is a prefix of s
IsPrefix(p, s) == Len(p) <= Len(s) /\ \A i \in DOMAIN p : p[i] = s[i]

\* C24: convert_commit_hash_to_short returns the first 7 characters of a
\* hash of 7 characters or more and a shorter hash unchanged: in every case
\* the prefix of the hash of length min(7, length of the hash)
C24_ShortHash ==
    (call.fn = "convert_commit_hash_to_short") =>
        /\ IsPrefix(call.res, call.arg)
        /\ Len(call.res) = IF Len(call.arg) < 7 THEN Len(call.arg) ELSE 7
        /\ (Len(call.arg) < 7) => call.res = call.arg

\* a hash longer than 7 characters was shortened
C24_Witness ==
    /\ call.fn = "convert_commit_hash_to_short"
    /\ Len(call.arg) > 7
    /\ Len(call.res) = 7
    /\ call.res # call.arg

\* the summary line with every "#<digits>" token, taken as far as its digits
\* go, replaced by the link to the issue of those digits
RECURSIVE LinkEachToken(_)
LinkEachToken(s) ==
    IF s = <<>> THEN <<>>
    ELSE LET n == DigitRun(SliceFrom(s, 1))
         IN IF s[1] = "#" /\ n > 0
            THEN IssueLink(SliceTo(SliceFrom(s, 1), n))
                     \o LinkEachToken(SliceFrom(s, n + 1))
            ELSE <<s[1]>> \o LinkEachToken(SliceFrom(s, 1))

\* C25 as stated: in a commit summary line every "#<digits>" token becomes one
\* markdown link, its text the token and its target the issue of exactly
\* those digits, with no link inside a link, also when the digits of one
\* token are the beginning of the digits of another
C25_IssueLinks ==
    (call.fn = "get_changes_for_build") => call.res = LinkEachToken(call.arg)

\* C26: when a channel that is not null is stored for the relevant key (the
\* top-level channel in legacy mode, the channel of the version's entry in
\* per-version mode) and an update is detected, the channel_changed flag
\* handed to delivery is true iff the stored channel differs from the fetched
\* one.
C26_ChannelChangedIff ==
    \A c \in checks : \A p \in posts :
        (KeyOf(p) = KeyOf(c)
           /\ StoredChannel(c.before, c.legacy, c.version) \notin {Missing, None})
            => (p.channel_changed
                  <=> StoredChannel(c.before, c.legacy, c.version) # c.channel)

\* an update POSTed with the flag raised over a stored BETA and a fetched
\* STABLE, in legacy mode
C26_Witness ==
    \E c \in checks : \E p \in posts :
        /\ KeyOf(p) = KeyOf(c)
        /\ c.legacy
        /\ StoredChannel(c.before, c.legacy, c.version) = "BETA"
        /\ c.channel = "STABLE"
        /\ p.channel_changed

\* the versions a document stores a channel for
ChannelVersions(f) ==
    IF f = NoFile THEN {}
    ELSE {v \in Versions : v \in DOMAIN f[1].versions
                           /\ f[1].versions[v].channel # Missing}
         \cup {v \in Versions : f[1].version = v /\ f[1].channel # Missing}

\* the document stores a channel, and only for versions other than the one
\* the check c fetched
OtherVersionStored(c) ==
    /\ ChannelVersions(c.before) # {}
    /\ c.version \notin ChannelVersions(c.before)

\* C27 as stated: in both modes, when the fetched version differs from the
\* version whose channel is stored, the detected update is delivered with
\* channel_changed = false.
C27_SameVersionOnly ==
    \A c \in checks : \A p \in posts :
        (KeyOf(p) = KeyOf(c) /\ OtherVersionStored(c)) => ~p.channel_changed

\* C27: when the fetched version differs from the version whose channel is
\* stored, the detected update is delivered with channel_changed = false in
\* per-version mode; in legacy mode the flag compares the fetched channel
\* with the one top-level channel, whatever version it was stored for, and is
\* true iff the two differ.
C27_TransitionScope ==
    \A c \in checks : \A p \in posts :
        (KeyOf(p) = KeyOf(c) /\ OtherVersionStored(c))
            => (p.channel_changed
                  <=> (c.legacy /\ TopChannel(c.before) # c.channel))

\* legacy mode: the STABLE build of a version POSTed with the flag raised over
\* the BETA stored for another version
C27_Witness ==
    \E c \in checks : \E p \in posts :
        /\ KeyOf(p) = KeyOf(c)
        /\ OtherVersionStored(c)
        /\ TopChannel(c.before) = "BETA"
        /\ c.channel = "STABLE"
        /\ c.legacy
        /\ p.channel_changed

\* C28 as stated: a write by write_to_json changes the top-level version,
\* build and channel only: a versions map the document had, and every entry
\* in it, is the same after the write as before.
C28_LegacyWriteKeepsVersions ==
    (last.op = "write" /\ last.legacy /\ BeforeHasVersions) =>
        /\ Now.hasVersions
        /\ Now.versions = last.before[1].versions

\* the document is legacy-shaped and holds a version and a build
BeforeIsLegacyShaped ==
    /\ IsDoc(last.before)
    /\ ~last.before[1].hasVersions
    /\ last.before[1].version # Missing
    /\ last.before[1].build # Missing

\* {"versions": {v0: {"build": b0, "channel": c0}}} for the legacy-shaped
\* document (v0, b0, c0), the channel null when the document has none
AsVersions(f) ==
    FileOf([EmptyState EXCEPT
              !.versions = MapPut(EmptyMap, f[1].version,
                                  [build |-> f[1].build,
                                   channel |-> FieldGet(f[1].channel, None)])])

\* C29: for a document without a versions key holding (v0, b0, c0),
\* up_to_date_for_version(v, b) and get_stored_data_for_version(v) return for
\* every v and b what they return on {versions: {v0: {build: b0, channel: c0}}}.
C29_LegacyLookupEquivalence ==
    (last.op = "check" /\ ~last.legacy /\ BeforeIsLegacyShaped) =>
        /\ last.updated
              = UpToDateForVersion(AsVersions(last.before), last.version, last.build)
        /\ GetStoredDataForVersion(last.before, last.version)
              = GetStoredDataForVersion(AsVersions(last.before), last.version)
        /\ last.channel_changed
              = ChannelChangedForVersion(AsVersions(last.before), last.version,
                                         last.channel)

\* the per-version lookup of the stored (v0, b0) on a legacy-shaped document
\* answered "up to date"
C29_Witness ==
    /\ last.op = "check"
    /\ ~last.legacy
    /\ BeforeIsLegacyShaped
    /\ last.version = last.before[1].version
    /\ last.updated

\* what up_to_date / up_to_date_for_version answered in the check c
FoundUpToDate(c) ==
    IF c.legacy THEN UpToDate(c.before, c.version, c.build)
    ELSE UpToDateForVersion(c.before, c.version, c.build)

\* C30: the state file is written exactly once per detected update and never
\* otherwise: a file changes only by the one write of an update that was
\* detected and not written before, and only the file of that project; a
\* lookup creates or changes no file, whatever the document (missing,
\* legacy-shaped or multi-version); a check that finds the version up to date
\* is followed by no write; and when the run is over every detected update has
\* been written, unless its write raised.
C30_WrittenOncePerUpdate ==
    /\ [][files' # files =>
            /\ \E c \in checks : ~FoundUpToDate(c) /\ KeyOf(c) = UpdateKey
            /\ UpdateKey \notin commits
            /\ commits' = commits \cup {UpdateKey}
            /\ \A p \in Projects \ {proj} : files'[p] = files[p]]_vars
    /\ [][checks' # checks => UNCHANGED <<files, tmps>>]_vars
    /\ [](\A c \in checks : FoundUpToDate(c) => KeyOf(c) \notin writes)
    /\ [](pc = "idle" =>
            \A c \in checks : ~FoundUpToDate(c) => KeyOf(c) \in commits \cup wfails)

\* the run is over, and an update detected on a missing or legacy-shaped
\* document was written: the file is no longer what the lookup found
C30_Witness ==
    /\ pc = "idle"
    /\ \E c \in checks :
          /\ ~FoundUpToDate(c)
          /\ c.before = NoFile \/ ~c.before[1].hasVersions
          /\ KeyOf(c) \in commits
          /\ files[c.proj] # c.before

\* a step of _send_webhook_with_retry: one requests.post and what follows it
PostStep == pc = "post" /\ (rets' # rets \/ attempt' # attempt)

\* C31: in _send_webhook_with_retry a sleep happens only after a failed
\* attempt that is followed by another attempt, its length is 2^i seconds for
\* the failed attempt of 0-based index i, and no sleep follows a successful
\* attempt or the final attempt.
C31_BackoffSchedule ==
    /\ [](slept # 0 =>
            /\ pc = "post"
            /\ outcome = "RequestException"
            /\ attempt \in 1..(MaxRetries - 1)
            /\ slept = 2 ^ (attempt - 1))
    /\ [][(PostStep /\ outcome' = "RequestException" /\ attempt < MaxRetries - 1)
            => (slept' = 2 ^ attempt /\ attempt' = attempt + 1 /\ pc' = "post")]_vars
    /\ [][(PostStep /\ outcome' = "ok") => slept' = 0]_vars
    /\ [][(PostStep /\ attempt = MaxRetries - 1) => slept' = 0]_vars

\* the second attempt for a url has failed and two seconds were slept
C31_Witness ==
    /\ pc = "post"
    /\ attempt = 2
    /\ slept = 2

\* the upstream holds a build for the version the delay d was taken after
HasBuilds(d) ==
    \E i \in DOMAIN upstream[d.proj] :
        upstream[d.proj][i].key = d.version /\ upstream[d.proj][i].builds # <<>>

CheckedEdge(p, e) == \E c \in checks : c.proj = p /\ c.version = e.key

\* the project p was fetched and every version the mode looks at was checked
Polled(p) ==
    IF checkAll
    THEN \A i \in DOMAIN upstream[p] :
             upstream[p][i].builds # <<>> => CheckedEdge(p, upstream[p][i])
    ELSE (upstream[p] # <<>> /\ upstream[p][1].builds # <<>>)
             => CheckedEdge(p, upstream[p][1])

\* nothing failed in the run but state writes
OnlyWritesFailed ==
    /\ wfails # {}
    /\ ffails = {}
    /\ \A k \in commits : dryRun \/ \E p \in posts : KeyOf(p) = k

\* C33 as stated: a state-write failure is fatal only for the update it
\* belongs to: when the run is over, the remaining versions of that project
\* and the remaining projects have been fetched and checked all the same.
C33_WriteFailureLocal ==
    (pc = "idle" /\ run >= 1 /\ OnlyWritesFailed) => \A p \in Projects : Polled(p)

\* the check c of single-version mode found the fetched version and build
\* stored, with BETA where STABLE was fetched
OnlyChannelDiffers(c) ==
    /\ c.legacy
    /\ TopVersion(c.before) = c.version
    /\ TopBuild(c.before) = c.build
    /\ TopChannel(c.before) = "BETA"
    /\ c.channel = "STABLE"

\* C34 as stated: in single-version mode, when the stored version and build
\* equal the fetched ones and only the stored channel (BETA) differs from the
\* fetched channel (STABLE), the run detects the channel change and sends
\* the webhook, with the channel announcement, to every configured url.
C34_ChannelChangeNotified ==
    (pc = "idle" /\ ~dryRun) =>
        \A c \in checks :
            OnlyChannelDiffers(c) =>
                \A h \in Hooks :
                    \E p \in posts :
                        KeyOf(p) = KeyOf(c) /\ p.hook = h /\ p.channel_changed

\* the flag _check_version_for_update computed in the check c
FlagOf(c) ==
    IF c.legacy THEN ChannelChangedLegacy(c.before, c.channel)
    ELSE ChannelChangedForVersion(c.before, c.version, c.channel)

\* C35: the payload of every webhook POST holds the primary container and the
\* download action first, and after them the channel announcement block if
\* and only if channel_changed is true for the update.
C35_AnnouncementIffChanged ==
    \A p \in posts :
        /\ Len(p.components) >= 2
        /\ p.components[1].type = 17
        /\ p.components[2].type = 1
        /\ \A c \in checks :
              KeyOf(c) = KeyOf(p) =>
                  IF FlagOf(c)
                  THEN /\ Len(p.components) = 3
                       /\ p.components[3] = [type |-> 10, content |-> "is now"]
                  ELSE Len(p.components) = 2

\* one update POSTed with the announcement as its third component, and one
\* POSTed without it
C35_Witness ==
    /\ \E p \in posts : Len(p.components) = 3 /\ p.components[3].type = 10
    /\ \E p \in posts : Len(p.components) = 2

\* the url h was POSTed to for the update being processed
PostedHook(h) == \E p \in posts : KeyOf(p) = UpdateKey /\ p.hook = h

\* C36: the drama lookup fails open: whatever error the lookup raises,
\* get_spigot_drama returns the static fallback string and no exception
\* leaves it; the loop over the urls starts after the lookup whatever its
\* outcome, and with the fallback every url is POSTed to, as with an answer.
C36_DramaFailsOpen ==
    /\ [][(pc = "process" /\ ~dryRun /\ drama' # drama) =>
            /\ \/ drama' = [dict |-> TRUE, text |-> "drama"]
               \/ drama' = [dict |-> FALSE, text |-> "There's no drama :("]
            /\ pc' = "post"
            /\ hook' = 1
            /\ raised' = raised]_vars
    /\ [](\A o \in DramaOutcomes \ {"ok"} :
            GetSpigotDrama(o) = [dict |-> FALSE, text |-> "There's no drama :("])
    /\ []((pc = "sent" /\ drama.text = "There's no drama :(") =>
            (~raised /\ \A h \in Hooks : PostedHook(h)))

\* the lookup failed, and the update has been POSTed to every url
C36_Witness ==
    /\ pc = "sent"
    /\ drama = [dict |-> FALSE, text |-> "There's no drama :("]
    /\ \A h \in Hooks : PostedHook(h)

\* the line get_changes_for_build makes of the commit c, read off the commit:
\* the short hash, the url of the full hash, the first line of the message
LineOf(c) ==
    <<"-", " ", "[">> \o SliceTo(c.sha, 7) \o <<"]", "(", "U">> \o c.sha
        \o <<")", " ", "m">>

\* the lines, each followed by a newline
RECURSIVE Terminated(_)
Terminated(lines) ==
    IF lines = <<>> THEN <<>>
    ELSE lines[1] \o <<"\n">> \o Terminated(SliceFrom(lines, 1))

\* the lines with a newline between every two of them
RECURSIVE Separated(_)
Separated(lines) ==
    IF Len(lines) <= 1 THEN (IF lines = <<>> THEN <<>> ELSE lines[1])
    ELSE lines[1] \o <<"\n">> \o Separated(SliceFrom(lines, 1))

\* C37 as stated: the per-commit lines in commit order joined with newline
\* separators: the empty string for zero commits, and for n >= 1 commits n
\* lines with a newline only between consecutive lines.
C37_JoinedBySeparators ==
    (call.fn = "get_changes_for_build(data)") =>
        call.res = Separated([i \in DOMAIN call.arg |-> LineOf(call.arg[i])])

\* C37: the empty string for zero commits, and for n >= 1 commits the n
\* per-commit lines in commit order, each followed by a newline: a newline
\* between consecutive lines and one after the last.
C37_LinesTerminated ==
    (call.fn = "get_changes_for_build(data)") =>
        call.res = Terminated([i \in DOMAIN call.arg |-> LineOf(call.arg[i])])

\* two commits with different hashes formatted: two lines, the last
\* character a newline
C37_Witness ==
    /\ call.fn = "get_changes_for_build(data)"
    /\ Len(call.arg) = 2
    /\ call.arg[1].sha # call.arg[2].sha
    /\ call.res[Len(call.res)] = "\n"

\* C38: every run terminates, whatever the upstream answers and whatever
\* fetch, write or delivery fails: main() reaches its return, no retry loop
\* goes beyond its last attempt on the way, and from its return on the run
\* lock is free, also when an exception aborted the project loop.
C38_RunTerminates ==
    /\ <>[](inst[1].pc = "exited" /\ pc = "idle" /\ lock = 0)
    /\ [](attempt < MaxRetries)

\* main() has returned from a run whose project loop an exception aborted
\* at the first project, and the lock is free
C38_Witness ==
    /\ inst[1].pc = "exited"
    /\ lock = 0
    /\ ffails = {1}

\* the update being processed is what the state file of its project holds
\* under the key of the mode
CurIsStored ==
    /\ UpdateKey \in commits
    /\ checkAll \/ TopVersion(files[proj]) = cur.version
    /\ StoredBuild(files[proj], ~checkAll, cur.version) = cur.build
    /\ StoredChannel(files[proj], ~checkAll, cur.version) = cur.channel

\* C39: a dry run still commits state: when the dry-run flag suppresses the
\* delivery of a detected update, the new (version, build, channel) is
\* already in the state file, and a later run without the flag against the
\* same upstream build attempts no POST for it.
C39_DryRunCommits ==
    /\ [][ProcessDryRun => CurIsStored]_vars
    /\ [](~dryRun =>
            \A u \in suppressed : \A p \in posts :
                ~(p.proj = u.proj /\ p.version = u.version /\ p.build = u.build))

\* a run without the flag is over that followed a dry run which suppressed
\* an update of the first project, and the file still holds that build
C39_Witness ==
    /\ ~dryRun
    /\ pc = "idle"
    /\ run = 2
    /\ \E u \in suppressed :
          /\ u.run = 1
          /\ u.proj = 1
          /\ StoredBuild(files[1], ~checkAll, u.version) = u.build

\* C40 as stated: every detected update whose state was committed outside
\* dry-run mode leads to at least one POST attempt to every configured url,
\* also when the build record has no download url or a creation date that
\* does not parse: when _process_and_send_update has returned for it, each
\* url has been POSTed to for it.
C40_CommittedIsPosted ==
    (pc = "sent" /\ ~dryRun /\ UpdateKey \in commits) =>
        \A h \in Hooks :
            \E p \in posts :
                /\ p.run = run
                /\ p.proj = proj
                /\ p.version = cur.version
                /\ p.build = cur.build
                /\ p.hook = h

=============================================================================
